---- MODULE Spec2Model ----
(***************************************************************************)
(* Tegra VI channel capture engine (drivers/media/platform/tegra/camera/   *)
(* graph.c): the submission queue, the ring buffer of in-flight buffers,   *)
(* the capture kthread and the start/stop streaming handlers of one        *)
(* channel.                                                                *)
(*                                                                         *)
(* The record chan holds the fields of struct tegra_channel that the       *)
(* capture path reads or writes, together with observation fields:         *)
(*   done    - the calls of vb2_buffer_done made by the step that led to   *)
(*             the current state, in order; an entry records the buffer,   *)
(*             the state it was completed with, the v4l2 sequence number   *)
(*             it was given (-1: none) and fs_seen at that moment          *)
(*   ndone   - the number of vb2_buffer_done calls made so far             *)
(*   fs_seen - the buffers not yet completed whose frame-start sync point  *)
(*             waits all succeeded                                         *)
(*   hw      - the port-controller / sync-point / register operations      *)
(*             issued by the step that led to the current state            *)
(*   clean   - no sync point wait timed out, no error status was raised    *)
(*             and no stream enable failed since start_streaming           *)
(* Buffers are numbered 1, 2, ... in submission order; 0 is a NULL slot.   *)
(***************************************************************************)
EXTENDS Integers, Sequences, FiniteSets, TLC

\* ---------------------------------------------------------------- bounds
MaxBufs == 5          \* buffers submitted in one behaviour
MaxPorts == 2         \* largest total_ports of the channel
MaxOrphans == 1       \* capture kthreads left behind by skipped stops
MaxDrift == 1         \* unbalanced tegra_channel_update_clknbw calls
MaxEvents == 2        \* status bits raised by the CSI hardware
MaxFiles == 2         \* file handles in the list of one video device

\* ------------------------------------------------------ program constants
QUEUED_BUFFERS == 4
PREVIOUS_BUFFER_DEC_INDEX == 2
SYNCPT_FIFO_DEPTH == 2
TEGRA_SURFACE_ALIGNMENT == 64
IMAGE_SIZE_HEIGHT_OFFSET == 16
FRAMERATE == 30
BPP_MEM == 2
PORT_A == 0
PORT_F == 5
INVALID_CSI_PORT == 255
MAX_NUM_LANES == 12

CaptureStates == {"IDLE", "GOOD", "TIMEOUT", "ERROR"}
NoTimeout == -1

Slots == 0 .. (QUEUED_BUFFERS - 1)
Ports(c) == 0 .. (c.valid_ports - 1)

VARIABLES
  chan,          \* struct tegra_channel (+ observation fields)
  pc,            \* position of the capture kthread
  kerr,          \* local err of tegra_channel_kthread_capture_start
  kbuf,          \* local buf of tegra_channel_kthread_capture_start
  should_stop,   \* kthread_should_stop() of the capture kthread
  capture_comp,  \* count of chan->capture_comp
  stop_pc,       \* position of a running tegra_channel_stop_streaming
  stop_is_streaming, \* its local is_streaming, read on entry
  nsub,          \* buffers submitted so far
  orphans,       \* capture kthreads that are alive and that
                 \* chan->kthread_capture_start no longer points to
  csi,           \* struct tegra_csi_device and the registers of the CSI
                 \* unit (+ observation fields)
  vid            \* the video devices of the channels: video_lock, file
                 \* handles, power reference counts (+ observation fields)

vars == <<chan, pc, kerr, kbuf, should_stop, capture_comp, stop_pc,
          stop_is_streaming, nsub, orphans, csi, vid>>

\* ------------------------------------------------------------ small helpers
\* a step starts with empty logs
Fresh(c) == [c EXCEPT !.hw = << >>, !.done = << >>]

\* vb2_buffer_done(vb, state)
vb2_buffer_done(c, vb, state, seq) ==
  [c EXCEPT !.done = Append(@, [buf |-> vb, state |-> state, seq |-> seq,
                                fs |-> c.fs_seen]),
            !.ndone = @ + 1,
            !.fs_seen = @ \ {vb}]

Log(c, op, index) == [c EXCEPT !.hw = Append(@, <<op, index>>)]

RECURSIVE LogPorts(_, _, _, _)
\* issue ops (a sequence of operation names) for port i, i+1, ..., n-1
LogPorts(c, ops, i, n) ==
  IF i >= n THEN c
  ELSE LET RECURSIVE one(_, _)
           one(cc, k) == IF k > Len(ops) THEN cc
                         ELSE one(Log(cc, ops[k], i), k + 1)
       IN LogPorts(one(c, 1), ops, i + 1, n)

\* ------------------------------------------------------------ gang geometry
\* The u32 arithmetic of the geometry is exact here: with the formats the
\* model draws (width and height below 2^13, at most 4 bytes a pixel) no
\* product reaches 2^31.
RECURSIVE BitOr(_, _)
\* a | b on unsigned values
BitOr(a, b) ==
  IF a = 0 THEN b
  ELSE IF b = 0 THEN a
  ELSE (IF a % 2 = 1 \/ b % 2 = 1 THEN 1 ELSE 0)
         + 2 * BitOr(a \div 2, b \div 2)

\* (offset + TEGRA_SURFACE_ALIGNMENT - 1) & ~(TEGRA_SURFACE_ALIGNMENT - 1)
\* on u32; the mask clears the bits below the alignment (a power of two)
surface_align(offset) ==
  LET t == offset + TEGRA_SURFACE_ALIGNMENT - 1
  IN t - (t % TEGRA_SURFACE_ALIGNMENT)

gang_buffer_offsets(c) ==
  LET offset == surface_align(
                  IF c.gang_mode \in {"CAMERA_NO_GANG_MODE", "CAMERA_GANG_L_R",
                                      "CAMERA_GANG_R_L"}
                  THEN c.gang_bytesperline
                  ELSE IF c.gang_mode \in {"CAMERA_GANG_T_B",
                                           "CAMERA_GANG_B_T"}
                       THEN c.gang_sizeimage
                       ELSE 0)
  IN [c EXCEPT !.buffer_offset =
        [i \in DOMAIN c.buffer_offset |->
           IF i < c.total_ports THEN i * offset
           ELSE c.buffer_offset[i]]]

gang_mode_width(gang_mode, width) ==
  IF gang_mode \in {"CAMERA_GANG_L_R", "CAMERA_GANG_R_L"}
  THEN width \div 2 ELSE width

gang_mode_height(gang_mode, height) ==
  IF gang_mode \in {"CAMERA_GANG_T_B", "CAMERA_GANG_B_T"}
  THEN height \div 2 ELSE height

update_gang_mode_params(c) ==
  LET gw  == gang_mode_width(c.gang_mode, c.format.width)
      gh  == gang_mode_height(c.gang_mode, c.format.height)
      bpl == gw * c.bpp
  IN gang_buffer_offsets(
       [c EXCEPT !.gang_width = gw, !.gang_height = gh,
                 !.gang_bytesperline = bpl,
                 !.gang_sizeimage = bpl * c.format.height])

\* variant: the ports of a ganged channel keep the full width
update_gang_mode_full_width(c) ==
  LET c1 == IF c.format.width > 1920 /\ c.format.height > 1080
            THEN [c EXCEPT !.gang_mode = "CAMERA_GANG_L_R",
                           !.valid_ports = c.total_ports]
            ELSE [c EXCEPT !.gang_mode = "CAMERA_NO_GANG_MODE",
                           !.valid_ports = 1]
      c2 == update_gang_mode_params(c1)
  IN [c2 EXCEPT !.gang_width = c.format.width]

update_gang_mode(c) ==
  update_gang_mode_params(
    IF c.format.width > 1920 /\ c.format.height > 1080
    THEN [c EXCEPT !.gang_mode = "CAMERA_GANG_L_R",
                   !.valid_ports = c.total_ports]
    ELSE [c EXCEPT !.gang_mode = "CAMERA_NO_GANG_MODE",
                   !.valid_ports = 1])

\* ------------------------------------------------------------- ring buffer
tegra_channel_init_ring_buffer(c) ==
  [c EXCEPT !.released_bufs = 0, !.num_buffers = 0, !.save_index = 0,
            !.free_index = 0, !.bfirst_fstart = FALSE]

RECURSIVE free_ring_buffers_unforced(_, _)
\* variant: the first two released buffers are not forced to ERROR
free_ring_buffers_unforced(c, frames) ==
  IF frames = 0 THEN c
  ELSE LET fi == c.free_index
           st == IF c.capture_state # "GOOD"
                 THEN "ERROR" ELSE c.buffer_state[fi]
           c0 == vb2_buffer_done(c, c.buffers[fi], st, c.sequence)
           c1 == [c0 EXCEPT
                    !.sequence = @ + 1,
                    !.buffer_state[fi] = st,
                    !.free_index = IF fi + 1 >= QUEUED_BUFFERS THEN 0
                                   ELSE fi + 1,
                    !.num_buffers = @ - 1,
                    !.released_bufs = @ + 1]
       IN free_ring_buffers_unforced(c1, frames - 1)

RECURSIVE free_ring_buffers(_, _)
free_ring_buffers(c, frames) ==
  IF frames = 0 THEN c
  ELSE LET fi == c.free_index
           st == IF c.capture_state # "GOOD" \/ c.released_bufs < 2
                 THEN "ERROR" ELSE c.buffer_state[fi]
           c0 == vb2_buffer_done(c, c.buffers[fi], st, c.sequence)
           c1 == [c0 EXCEPT
                    !.sequence = @ + 1,
                    !.buffer_state[fi] = st,
                    !.free_index = IF fi + 1 >= QUEUED_BUFFERS THEN 0
                                   ELSE fi + 1,
                    !.num_buffers = @ - 1,
                    !.released_bufs = @ + 1]
       IN free_ring_buffers(c1, frames - 1)

add_buffer_to_ring(c, vb) ==
  [c EXCEPT !.buffer_state[c.save_index] = "ERROR",
            !.buffers[c.save_index] = vb,
            !.save_index = IF c.save_index + 1 >= QUEUED_BUFFERS THEN 0
                           ELSE c.save_index + 1,
            !.num_buffers = @ + 1]

update_state_to_buffer(c, state) ==
  LET d == c.save_index - PREVIOUS_BUFFER_DEC_INDEX
      save_index == IF d < 0 THEN d + QUEUED_BUFFERS ELSE d
      c1 == [c EXCEPT !.buffer_state[save_index] = state]
  IN IF c.capture_state # "GOOD"
     THEN [c1 EXCEPT !.buffer_state[c.save_index] = state]
     ELSE c1

\* variant: no flush when the capture state is not GOOD
tegra_channel_ring_buffer_noflush(c, vb, state) ==
  LET c1 == IF ~c.bfirst_fstart THEN [c EXCEPT !.bfirst_fstart = TRUE]
            ELSE update_state_to_buffer(c, state)
  IN IF c1.num_buffers >= QUEUED_BUFFERS - 1
     THEN free_ring_buffers(c1, 1)
     ELSE c1

\* variant: the oldest buffer is released only once the ring is over-full
tegra_channel_ring_buffer_late(c, vb, state) ==
  LET c1 == IF ~c.bfirst_fstart THEN [c EXCEPT !.bfirst_fstart = TRUE]
            ELSE update_state_to_buffer(c, state)
  IN IF c1.capture_state # "GOOD"
     THEN tegra_channel_init_ring_buffer(
            free_ring_buffers(c1, c1.num_buffers))
     ELSE IF c1.num_buffers > QUEUED_BUFFERS
          THEN free_ring_buffers(c1, 1)
          ELSE c1

\* variant: the oldest buffer is released one frame start early
tegra_channel_ring_buffer_early(c, vb, state) ==
  LET c1 == IF ~c.bfirst_fstart THEN [c EXCEPT !.bfirst_fstart = TRUE]
            ELSE update_state_to_buffer(c, state)
  IN IF c1.capture_state # "GOOD"
     THEN tegra_channel_init_ring_buffer(
            free_ring_buffers(c1, c1.num_buffers))
     ELSE IF c1.num_buffers >= QUEUED_BUFFERS - 2
          THEN free_ring_buffers(c1, 1)
          ELSE c1

tegra_channel_ring_buffer(c, vb, state) ==
  LET c1 == IF ~c.bfirst_fstart THEN [c EXCEPT !.bfirst_fstart = TRUE]
            ELSE update_state_to_buffer(c, state)
  IN IF c1.capture_state # "GOOD"
     THEN tegra_channel_init_ring_buffer(
            free_ring_buffers(c1, c1.num_buffers))
     ELSE IF c1.num_buffers >= QUEUED_BUFFERS - 1
          THEN free_ring_buffers(c1, 1)
          ELSE c1

\* variant: the entry is taken from the tail of the list
dequeue_buffer_from_tail(c) ==
  add_buffer_to_ring([c EXCEPT !.capture = SubSeq(@, 1, Len(@) - 1)],
                     c.capture[Len(c.capture)])

\* dequeue_buffer on a non-empty list; the caller takes Head(c.capture)
dequeue_buffer(c) ==
  add_buffer_to_ring([c EXCEPT !.capture = Tail(@)], Head(c.capture))

RECURSIVE queued_buf_done_loop(_, _)
queued_buf_done_loop(c, state) ==
  IF c.capture = << >> THEN c
  ELSE queued_buf_done_loop(
         [vb2_buffer_done(c, Head(c.capture), state, -1)
            EXCEPT !.capture = Tail(@)], state)

\* variant: only the first entry of the list is completed
tegra_channel_queued_buf_done_first(c, state) ==
  IF c.capture = << >> THEN c
  ELSE [vb2_buffer_done(c, Head(c.capture), state, -1)
          EXCEPT !.capture = Tail(@)]

tegra_channel_queued_buf_done(c, state) == queued_buf_done_loop(c, state)


\* ------------------------------------------------- stream enable / recover
\* sres: result of the sub-devices' s_stream call (0 or a negative errno)
tegra_channel_set_stream(c, on, sres) ==
  IF c.is_streaming = on THEN [c |-> c, ret |-> 0]
  ELSE LET c1 == Log(c, IF on THEN "s_stream_on" ELSE "s_stream_off", 0)
       IN IF sres # 0 THEN [c |-> c1, ret |-> sres]
          ELSE [c |-> [c1 EXCEPT !.is_streaming = on], ret |-> 0]

tegra_channel_mipi_cal(c) == Log(c, "mipi_cal", 0)

tegra_channel_enable_stream(c, sres) ==
  LET c1 == Log(c, "pad_control_enable", 0)
      r  == IF c1.pg_mode
            THEN [c |-> [LogPorts(c1, <<"tpg_start">>, 0, c1.valid_ports)
                           EXCEPT !.is_streaming = TRUE],
                  ret |-> 0]
            ELSE tegra_channel_set_stream(c1, TRUE, sres)
  IN IF r.ret < 0 THEN r
     ELSE LET c2 == Log(r.c, "bias_pad_enable", 0)
          IN [c |-> IF ~c2.pg_mode THEN tegra_channel_mipi_cal(c2) ELSE c2,
              ret |-> r.ret]

\* the TEGRA_VI_CSI_IMAGE_SIZE register of every valid port
tegra_channel_capture_setup(c) ==
  LET height == IF c.valid_ports > 1 THEN c.gang_height ELSE c.format.height
      width  == IF c.valid_ports > 1 THEN c.gang_width ELSE c.format.width
      value  == BitOr(height * (2 ^ IMAGE_SIZE_HEIGHT_OFFSET), width)
  IN LogPorts([c EXCEPT !.image_size =
                 [i \in DOMAIN c.image_size |->
                    IF i < c.valid_ports THEN value ELSE c.image_size[i]]],
              <<"capture_setup">>, 0, c.valid_ports)

tegra_channel_capture_error(c) ==
  LogPorts(c, <<"csi_status">>, 0, c.valid_ports)

RECURSIVE record_fifo_backlog(_, _, _)
\* error_val: the ports whose frame-start bit is set in VI_INCR_SYNCPT_ERROR
record_fifo_backlog(c, error_val, i) ==
  IF i >= c.valid_ports THEN c
  ELSE record_fifo_backlog(
         IF i \in error_val
         THEN Log([c EXCEPT !.syncpoint_fifo[i] = SYNCPT_FIFO_DEPTH],
                  "syncpoint_fifo_full", i)
         ELSE c,
         error_val, i + 1)

\* variant: only the first port is recovered
tegra_channel_vi_csi_recover_first_port(c, error_val) ==
  LET n  == c.valid_ports
      c1 == Log(Log(c, "pad_control_disable", 0), "cg_disable", 0)
      c2 == LogPorts(c1, <<"csi_error_recover", "image_def_clear",
                           "clear_singleshot">>, 0, 1)
      c3 == record_fifo_backlog(c2, error_val, 0)
      c4 == Log(Log(c3, "syncpt_error_clear", 0), "cg_enable", 0)
      c5 == tegra_channel_capture_setup(c4)
  IN LogPorts(c5, <<"csi_stop", "csi_start", "syncpt_min_eq_max">>, 0, n)

\* variant: the sync points are forced before the ports are restarted
tegra_channel_vi_csi_recover_min_eq_max_first(c, error_val) ==
  LET n  == c.valid_ports
      c1 == Log(Log(c, "pad_control_disable", 0), "cg_disable", 0)
      c2 == LogPorts(c1, <<"csi_error_recover", "image_def_clear",
                           "clear_singleshot">>, 0, n)
      c3 == record_fifo_backlog(c2, error_val, 0)
      c4 == Log(Log(c3, "syncpt_error_clear", 0), "cg_enable", 0)
      c5 == tegra_channel_capture_setup(c4)
  IN LogPorts(c5, <<"syncpt_min_eq_max", "csi_stop", "csi_start">>, 0, n)

tegra_channel_vi_csi_recover(c, error_val) ==
  LET n  == c.valid_ports
      c1 == Log(Log(c, "pad_control_disable", 0), "cg_disable", 0)
      c2 == LogPorts(c1, <<"csi_error_recover", "image_def_clear",
                           "clear_singleshot">>, 0, n)
      c3 == record_fifo_backlog(c2, error_val, 0)
      c4 == Log(Log(c3, "syncpt_error_clear", 0), "cg_enable", 0)
      c5 == tegra_channel_capture_setup(c4)
  IN LogPorts(c5, <<"csi_stop", "csi_start", "syncpt_min_eq_max">>, 0, n)

tegra_channel_ec_recover(c, error_val) ==
  tegra_channel_vi_csi_recover(tegra_channel_capture_error(c), error_val)

\* errs: the ports whose error status (VI or CSI) reads non-zero
tegra_channel_error_status(c, errs) ==
  LET c1  == LogPorts(c, <<"error_status", "csi_error">>, 0, c.valid_ports)
      err == IF errs \cap Ports(c) # {} THEN 1 ELSE 0
  IN [c |-> IF err # 0 THEN Log(c1, "error_status_report", 0) ELSE c1,
      err |-> err]

\* ------------------------------------------------------------ capture frame
RECURSIVE program_ports_always_arm(_, _)
\* variant: the increment request is armed although the FIFO holds entries
program_ports_always_arm(c, i) ==
  IF i >= c.valid_ports THEN c
  ELSE LET c1 == Log(Log(c, "surface", i), "syncpt_incr_max", i)
           c2 == IF c1.syncpoint_fifo[i] = 0 THEN Log(c1, "arm_syncpt", i)
                 ELSE [Log(c1, "arm_syncpt", i)
                         EXCEPT !.syncpoint_fifo[i] = @ - 1]
       IN program_ports_always_arm(c2, i + 1)

RECURSIVE program_ports(_, _)
\* the loop that programs the surface and the sync point of every valid port
program_ports(c, i) ==
  IF i >= c.valid_ports THEN c
  ELSE LET c1 == Log(Log(c, "surface", i), "syncpt_incr_max", i)
           c2 == IF c1.syncpoint_fifo[i] = 0 THEN Log(c1, "arm_syncpt", i)
                 ELSE [c1 EXCEPT !.syncpoint_fifo[i] = @ - 1]
       IN program_ports(c2, i + 1)

\* variant: the capture state is not set back to GOOD when a capture is
\* armed
capture_frame_arm_state_kept(c, vb, sres) ==
  LET c1 == program_ports(c, 0)
      en == IF ~c1.bfirst_fstart
            THEN tegra_channel_enable_stream(c1, sres)
            ELSE [c |-> c1, ret |-> 0]
  IN IF en.ret # 0
     THEN [c |-> tegra_channel_ring_buffer(
                   [en.c EXCEPT !.capture_state = "ERROR",
                                !.clean = FALSE],
                   vb, "ERROR"),
           ret |-> en.ret]
     ELSE LET c2 == IF ~c1.bfirst_fstart
                    THEN LogPorts(en.c, <<"dest_mem">>, 0, c.valid_ports)
                    ELSE en.c
              c3 == LogPorts(c2, <<"single_shot">>, 0, c.valid_ports)
          IN [c |-> c3, ret |-> 0]

\* tegra_channel_capture_frame up to the point where it blocks in the wait
capture_frame_arm(c, vb, sres) ==
  LET c1 == program_ports(c, 0)
      en == IF ~c1.bfirst_fstart
            THEN tegra_channel_enable_stream(c1, sres)
            ELSE [c |-> c1, ret |-> 0]
  IN IF en.ret # 0
     THEN [c |-> tegra_channel_ring_buffer(
                   [en.c EXCEPT !.capture_state = "ERROR",
                                !.clean = FALSE],
                   vb, "ERROR"),
           ret |-> en.ret]
     ELSE LET c2 == IF ~c1.bfirst_fstart
                    THEN LogPorts(en.c, <<"dest_mem">>, 0, c.valid_ports)
                    ELSE en.c
              c3 == LogPorts(c2, <<"single_shot">>, 0, c.valid_ports)
          IN [c |-> [c3 EXCEPT !.capture_state = "GOOD"], ret |-> 0]

\* variant: the capture state is not set on a timeout
wait_ports_state_kept(c, tmo, error_val) ==
  IF tmo = NoTimeout
  THEN LogPorts(c, <<"syncpt_wait">>, 0, c.valid_ports)
  ELSE tegra_channel_ec_recover(
         Log(LogPorts(c, <<"syncpt_wait">>, 0, tmo + 1),
             "syncpt_timeout", tmo), error_val)

\* the waits of a capture: tmo is the first port whose wait times out
wait_ports(c, tmo, error_val) ==
  IF tmo = NoTimeout
  THEN LogPorts(c, <<"syncpt_wait">>, 0, c.valid_ports)
  ELSE [tegra_channel_ec_recover(
          Log(LogPorts(c, <<"syncpt_wait">>, 0, tmo + 1),
              "syncpt_timeout", tmo), error_val)
        EXCEPT !.capture_state = "TIMEOUT"]

\* variant: the recovery is run for an error status frame as well
capture_frame_wait_recover(c, vb, tmo, errs, error_val) ==
  LET c1 == wait_ports(c, tmo, error_val)
      es == IF tmo = NoTimeout /\ ~c1.pg_mode
            THEN tegra_channel_error_status(c1, errs)
            ELSE [c |-> c1, err |-> 0]
      c2 == IF es.err # 0
            THEN tegra_channel_ec_recover(
                   [es.c EXCEPT !.capture_state = "ERROR"], error_val)
            ELSE es.c
      state == IF tmo # NoTimeout \/ es.err # 0 THEN "ERROR" ELSE "DONE"
      c3 == [c2 EXCEPT
               !.clean = @ /\ tmo = NoTimeout /\ es.err = 0,
               !.fs_seen = IF tmo = NoTimeout THEN @ \cup {vb} ELSE @]
  IN tegra_channel_ring_buffer(c3, vb, state)

\* tegra_channel_capture_frame from the waits to its return
capture_frame_wait(c, vb, tmo, errs, error_val) ==
  LET c1 == wait_ports(c, tmo, error_val)
      es == IF tmo = NoTimeout /\ ~c1.pg_mode
            THEN tegra_channel_error_status(c1, errs)
            ELSE [c |-> c1, err |-> 0]
      c2 == IF es.err # 0 THEN [es.c EXCEPT !.capture_state = "ERROR"]
            ELSE es.c
      state == IF tmo # NoTimeout \/ es.err # 0 THEN "ERROR" ELSE "DONE"
      c3 == [c2 EXCEPT
               !.clean = @ /\ tmo = NoTimeout /\ es.err = 0,
               !.fs_seen = IF tmo = NoTimeout THEN @ \cup {vb} ELSE @]
  IN tegra_channel_ring_buffer(c3, vb, state)

\* tegra_channel_capture_done: the last frame, waited for at stream stop
tegra_channel_capture_done(c, tmo, error_val) ==
  IF c.capture = << >> THEN c
  ELSE LET vb == Head(c.capture)
           c1 == dequeue_buffer(c)
           c2 == LogPorts(c1, <<"surface", "syncpt_incr_max", "arm_mw_ack",
                                "single_shot">>, 0, c1.valid_ports)
           c3 == wait_ports(c2, tmo, error_val)
           c4 == [c3 EXCEPT !.capture_state = "IDLE",
                            !.clean = @ /\ tmo = NoTimeout]
       IN tegra_channel_ring_buffer(c4, vb,
            IF tmo # NoTimeout THEN "ERROR" ELSE "DONE")


\* ------------------------------------------------------- clock / bandwidth
\* requested_kbyteps is an int and aggregated_kbyteps an unsigned long; the
\* model keeps the two's complement reading of aggregated_kbyteps, so -n
\* stands for the unsigned value 2^w - n
kbyteps(c) ==
  (c.format.width * c.format.height * FRAMERATE * BPP_MEM) \div 1000

tegra_channel_update_clknbw(c, on) ==
  LET kb  == kbyteps(c)
      req == IF on > 0 THEN kb ELSE 0 - kb
  IN Log([c EXCEPT !.requested_kbyteps = req,
                   !.aggregated_kbyteps = @ + req],
         IF on > 0 THEN "update_clknbw_on" ELSE "update_clknbw_off", 0)

\* ------------------------------------------------------------ stream stop
\* tegra_channel_stop_streaming after tegra_channel_stop_kthreads returned
\* (non-bypass channel).  is_str: the local is_streaming read on entry;
\* sres: result of the sub-devices' s_stream(off) call
stop_streaming_rest(c, is_str, tmo, error_val, sres) ==
  LET c0 == [c EXCEPT !.kthread_capture_start = "NULL"]
      c1 == IF is_str /\ c0.capture_state = "GOOD"
            THEN tegra_channel_capture_done(c0, tmo, error_val) ELSE c0
      c2 == free_ring_buffers(c1, c1.num_buffers)
      c3 == tegra_channel_queued_buf_done(c2, "ERROR")
      c4 == Log(c3, "cg_disable", 0)
      c5 == Log(Log(LogPorts(c4, <<"csi_stop">>, 0, c4.valid_ports),
                    "cg_enable", 0), "pad_control_disable", 0)
      c6 == IF ~c5.pg_mode
            THEN Log(tegra_channel_set_stream(c5, FALSE, sres).c,
                     "pipeline_stop", 0)
            ELSE c5
      c7 == Log(tegra_channel_update_clknbw(c6, 0), "bias_pad_disable", 0)
  IN [c7 EXCEPT !.start_streaming_called = FALSE]

\* ----------------------------------------------------------------- CSI unit
\* A register word is the set of its bits that are 1: a & b is the
\* intersection, a | b the union and 0 the empty set.
PP_HEADER_ERROR == {14}       \* 0x4000 of TEGRA_CSI_PIXEL_PARSER_STATUS
CIL_MULTI_BIT_ERROR == {1}    \* 0x02 of TEGRA_CSI_CIL_STATUS
CILX_MULTI_BIT_ERROR == {5, 17} \* 0x00020020 of TEGRA_CSI_CILX_STATUS
ALL_ONES == 0 .. 31           \* 0xFFFFFFFF

RECURSIVE WordValue(_)
\* the number a word stands for (words below 2^31 only)
WordValue(w) ==
  IF w = {} THEN 0
  ELSE LET b == CHOOSE x \in w : TRUE IN (2 ^ b) + WordValue(w \ {b})

CsiPortNums == PORT_A .. PORT_F
CsiBricks == 0 .. 2
\* port_num >> 1, and ((port_num >> 1) << 1)
BrickOf(port_num) == port_num \div 2
PortAOf(port_num) == (port_num \div 2) * 2

\* the CSI device after set_csi_registers, its registers at their reset
\* values.  brick: the brick the calls of a behaviour are made on; log: the
\* register accesses of the last call, in order; call, ret: that call and
\* the value it returned; events: the status bits the hardware raised
tegra_csi_probe(brick) ==
  [lanes |-> [q \in CsiPortNums |-> 2],
   pp_status |-> [q \in CsiPortNums |-> {}],
   cil_status |-> [q \in CsiPortNums |-> {}],
   cilx_status |-> [q \in CsiPortNums |-> {}],
   pp_command |-> [q \in CsiPortNums |-> "0"],
   tpg_ctrl |-> [q \in CsiPortNums |-> "PG_DISABLE"],
   sw_sensor_reset |-> [q \in CsiPortNums |-> 0],
   sw_status_reset |-> [b \in CsiBricks |-> 0],
   phy_cil_command |-> [b \in CsiBricks |-> {}],
   pg_mode |-> FALSE,
   brick |-> brick, log |-> << >>, call |-> <<"none", 0>>, ret |-> 0,
   events |-> 0]

set_csi_portinfo(d, port, numlanes) == [d EXCEPT !.lanes[port] = numlanes]

\* a call starts with an empty log
CsiCall(d, name, port_num) ==
  [d EXCEPT !.log = << >>, !.call = <<name, port_num>>]

CsiLog(d, reg, index, val) == [d EXCEPT !.log = Append(@, <<reg, index, val>>)]

\* a write to a status register clears the bits written as 1 ('Clean up
\* status' writes 0xFFFFFFFF)
pp_write_status(d, q, val) ==
  CsiLog([d EXCEPT !.pp_status[q] = @ \ val], "PIXEL_PARSER_STATUS", q, val)
cil_write_status(d, q, val) ==
  CsiLog([d EXCEPT !.cil_status[q] = @ \ val], "CIL_STATUS", q, val)
cilx_write_status(d, q, val) ==
  CsiLog([d EXCEPT !.cilx_status[q] = @ \ val], "CILX_STATUS", q, val)

pp_write_command(d, q, val) ==
  CsiLog([d EXCEPT !.pp_command[q] = val], "PIXEL_STREAM_PP_COMMAND", q, val)
tpg_write_ctrl(d, q, val) ==
  CsiLog([d EXCEPT !.tpg_ctrl[q] = val], "PATTERN_GENERATOR_CTRL", q, val)
cil_write_sensor_reset(d, q, val) ==
  CsiLog([d EXCEPT !.sw_sensor_reset[q] = val], "CIL_SW_SENSOR_RESET", q, val)
csi_write_status_reset(d, b, val) ==
  CsiLog([d EXCEPT !.sw_status_reset[b] = val], "CSI_SW_STATUS_RESET", b, val)
csi_write_phy_cil_command(d, b, val) ==
  CsiLog([d EXCEPT !.phy_cil_command[b] = val], "PHY_CIL_COMMAND", b, val)

\* variant: every status bit counts as an error
tegra_csi_error_any_bit(d, port_num) ==
  LET pp   == d.pp_status[port_num]
      d1   == pp_write_status(d, port_num, pp)
      cil  == d1.cil_status[port_num]
      d2   == cil_write_status(d1, port_num, cil)
      cilx == d2.cilx_status[port_num]
      d3   == cilx_write_status(d2, port_num, cilx)
  IN [d3 EXCEPT !.ret = WordValue(pp \cup cil \cup cilx)]

tegra_csi_error(d, port_num) ==
  LET pp   == d.pp_status[port_num]
      err1 == pp \cap PP_HEADER_ERROR
      d1   == pp_write_status(d, port_num, pp)
      cil  == d1.cil_status[port_num]
      err2 == err1 \cup (cil \cap CIL_MULTI_BIT_ERROR)
      d2   == cil_write_status(d1, port_num, cil)
      cilx == d2.cilx_status[port_num]
      err3 == err2 \cup (cilx \cap CILX_MULTI_BIT_ERROR)
      d3   == cilx_write_status(d2, port_num, cilx)
  IN [d3 EXCEPT !.ret = WordValue(err3)]

\* TEGRA_CSI_PHY_CIL_COMMAND of a brick: the enable bits of its two ports
CSI_A_PHY_CIL_ENABLE == {"CSI_A_PHY_CIL_ENABLE"}
CSI_B_PHY_CIL_ENABLE == {"CSI_B_PHY_CIL_ENABLE"}

\* ((port->num & 0x1) == PORT_A) ? CSI_A_PHY_CIL_ENABLE : CSI_B_PHY_CIL_ENABLE
PhyCilEnableOf(port_num) ==
  IF port_num % 2 = PORT_A THEN CSI_A_PHY_CIL_ENABLE ELSE CSI_B_PHY_CIL_ENABLE

\* a write to a register the model keeps no value of
csi_write_other(d, reg, index, val) == CsiLog(d, reg, index, val)

\* the pixel parser registers written between the two PP_COMMAND writes
PixelParserControlWords ==
  {"PIXEL_PARSER_INTERRUPT_MASK", "PIXEL_STREAM_CONTROL0",
   "PIXEL_STREAM_CONTROL1", "PIXEL_STREAM_GAP",
   "PIXEL_STREAM_EXPECTED_FRAME", "INPUT_STREAM_CONTROL"}

\* status clean-up and the first CIL PHY writes, on the named port
csi_start_prologue(d, port_num) ==
  LET d1 == csi_write_other(d, "CLKEN_OVERRIDE", BrickOf(port_num), "0x0")
      d2 == pp_write_status(d1, port_num, ALL_ONES)
      d3 == cil_write_status(d2, port_num, ALL_ONES)
      d4 == cilx_write_status(d3, port_num, ALL_ONES)
      d5 == csi_write_other(d4, "CIL_INTERRUPT_MASK", port_num, "0x0")
      d6 == csi_write_other(d5, "CIL_PAD_CONFIG0", port_num, "0x0")
  IN csi_write_other(d6, "CIL_PHY_CONTROL", port_num, "0xA")

\* if (port->lanes == 4): both ports of the brick
csi_start_phy_4lane(d, port_num) ==
  LET port_a == PortAOf(port_num)
      port_b == PortAOf(port_num) + 1
      d1 == csi_write_other(d, "CIL_PAD_CONFIG0", port_a, "BRICK_CLOCK_A_4X")
      d2 == csi_write_other(d1, "CIL_PAD_CONFIG0", port_b, "0x0")
      d3 == csi_write_other(d2, "CIL_INTERRUPT_MASK", port_b, "0x0")
      d4 == csi_write_other(d3, "CIL_PHY_CONTROL", port_a, "0xA")
      d5 == csi_write_other(d4, "CIL_PHY_CONTROL", port_b, "0xA")
  IN csi_write_phy_cil_command(d5, BrickOf(port_num),
                               CSI_A_PHY_CIL_ENABLE \cup CSI_B_PHY_CIL_ENABLE)

\* variant: the enable bit of the port is written without the value read
csi_start_phy_2lane_overwrite(d, port_num) ==
  LET d1 == csi_write_other(d, "CIL_PAD_CONFIG0", PortAOf(port_num), "0x0")
  IN csi_write_phy_cil_command(d1, BrickOf(port_num),
                               PhyCilEnableOf(port_num))

\* else: read, set the bit of the port, write back
csi_start_phy_2lane(d, port_num) ==
  LET val == d.phy_cil_command[BrickOf(port_num)]
      d1  == csi_write_other(d, "CIL_PAD_CONFIG0", PortAOf(port_num), "0x0")
  IN csi_write_phy_cil_command(d1, BrickOf(port_num),
                               val \cup PhyCilEnableOf(port_num))

\* the pixel parser set-up: reset, control words, enable
csi_start_pixel_parser(d, port_num) ==
  LET d1 == pp_write_command(d, port_num, "CSI_PP_RST")
      d2 == csi_write_other(d1, "PIXEL_PARSER_INTERRUPT_MASK", port_num, "0x0")
      d3 == csi_write_other(d2, "PIXEL_STREAM_CONTROL0", port_num,
                            port_num % 2)
      d4 == csi_write_other(d3, "PIXEL_STREAM_CONTROL1", port_num, "0x1")
      d5 == csi_write_other(d4, "PIXEL_STREAM_GAP", port_num, "0x14")
      d6 == csi_write_other(d5, "PIXEL_STREAM_EXPECTED_FRAME", port_num, "0x0")
      d7 == csi_write_other(d6, "INPUT_STREAM_CONTROL", port_num,
                            d.lanes[port_num] - 1)
  IN pp_write_command(d7, port_num, "CSI_PP_ENABLE")

tegra_csi_start_streaming(d, port_num) ==
  LET d1 == csi_start_prologue(d, port_num)
      d2 == IF d1.lanes[port_num] = 4
            THEN csi_start_phy_4lane(d1, port_num)
            ELSE csi_start_phy_2lane(d1, port_num)
  IN csi_start_pixel_parser(d2, port_num)

tegra_csi_stop_streaming(d, port_num) ==
  LET d1 == IF d.pg_mode THEN tpg_write_ctrl(d, port_num, "PG_DISABLE") ELSE d
  IN pp_write_command(d1, port_num, "CSI_PP_DISABLE")

\* the else branch of tegra_csi_error_recover: the named port alone
csi_error_recover_port(d, port_num) ==
  LET d1 == tpg_write_ctrl(d, port_num, "PG_ENABLE")
      d2 == cil_write_sensor_reset(d1, port_num, 1)
      d3 == csi_write_status_reset(d2, BrickOf(port_num), 1)
      d4 == csi_write_other(d3, "usleep_range", 10, 20)
      d5 == cil_write_sensor_reset(d4, port_num, 0)
      d6 == csi_write_status_reset(d5, BrickOf(port_num), 0)
  IN tpg_write_ctrl(d6, port_num, "PG_DISABLE")

\* the lanes == 4 branch: both ports of the brick
csi_error_recover_brick(d, port_num) ==
  LET port_a == PortAOf(port_num)
      port_b == PortAOf(port_num) + 1
      d1 == tpg_write_ctrl(d, port_a, "PG_ENABLE")
      d2 == tpg_write_ctrl(d1, port_b, "PG_ENABLE")
      d3 == cil_write_sensor_reset(d2, port_a, 1)
      d4 == cil_write_sensor_reset(d3, port_b, 1)
      d5 == csi_write_status_reset(d4, BrickOf(port_num), 1)
      d6 == csi_write_other(d5, "usleep_range", 10, 20)
      d7 == cil_write_sensor_reset(d6, port_a, 0)
      d8 == cil_write_sensor_reset(d7, port_b, 0)
      d9 == csi_write_status_reset(d8, BrickOf(port_num), 0)
      d10 == tpg_write_ctrl(d9, port_a, "PG_DISABLE")
  IN tpg_write_ctrl(d10, port_b, "PG_DISABLE")

\* variant: the named port alone, whatever its lanes
tegra_csi_error_recover_named_port(d, port_num) ==
  csi_error_recover_port(d, port_num)

tegra_csi_error_recover(d, port_num) ==
  IF d.lanes[port_num] = 4
  THEN csi_error_recover_brick(d, port_num)
  ELSE csi_error_recover_port(d, port_num)

\* ------------------------------------------------------------ video device
\* the channels of one media controller, each with its video device
VideoChans == 0 .. 1

\* the media controller after the video devices were registered: no file is
\* open, the power is off.  fh_list: the file handles in the list of the
\* video device; files: the files open on it, which can be released; call,
\* ret: the last call and the value it returned
tegra_video_probe ==
  [pg_mode |-> FALSE, sensor_opened |-> FALSE, tpg_opened |-> FALSE,
   power_on_refcnt |-> 0,
   video_lock |-> [ch \in VideoChans |-> "free"],
   chan_power_on_refcnt |-> [ch \in VideoChans |-> 0],
   fh_list |-> [ch \in VideoChans |-> 0],
   files |-> [ch \in VideoChans |-> 0],
   subdev_on_csi |-> [ch \in VideoChans |-> ch = 0],
   call |-> <<"none", 0>>, ret |-> 0]

mutex_lock(v, ch) == [v EXCEPT !.video_lock[ch] = "held"]
mutex_unlock(v, ch) == [v EXCEPT !.video_lock[ch] = "free"]

\* a call that returns: a file is open afterwards iff open returned 0
video_return(v, ch, ret) ==
  [v EXCEPT !.ret = ret,
            !.files[ch] = IF v.call[1] = "tegra_channel_open" /\ ret = 0
                          THEN @ + 1 ELSE @]

\* open from the first power-on to the label unlock.  power_ret: the value
\* tegra_channel_set_power returns
open_power_on(v, ch, power_ret) ==
  LET first == v.power_on_refcnt + 1 = 1
      v1 == [v EXCEPT !.power_on_refcnt = @ + 1,
                      !.tpg_opened = IF first /\ v.pg_mode THEN TRUE ELSE @,
                      !.sensor_opened =
                        IF first /\ ~v.pg_mode THEN TRUE ELSE @]
      v2 == IF ~v1.pg_mode
            THEN [v1 EXCEPT !.chan_power_on_refcnt[ch] = @ + 1] ELSE v1
      ret == IF ~v1.pg_mode /\ v2.chan_power_on_refcnt[ch] = 1
                /\ power_ret < 0
             THEN power_ret ELSE 0
  IN video_return(mutex_unlock(v2, ch), ch, ret)

\* open from mutex_lock to the first power-on.  fh_ret: the value
\* v4l2_fh_open returns; a file handle it added stays in the list when open
\* fails afterwards.  proceed: the call goes on to the first power-on
\* (otherwise it has returned)
open_enter(v, ch, fh_ret) ==
  LET v1 == mutex_lock(v, ch)
      v2 == [v1 EXCEPT !.fh_list[ch] = @ + 1]
      returned(w, ret) == [v |-> video_return(w, ch, ret), proceed |-> FALSE]
  IN IF fh_ret # 0 THEN returned(mutex_unlock(v1, ch), fh_ret)
     ELSE IF v2.fh_list[ch] # 1 THEN returned(mutex_unlock(v2, ch), 0)
     ELSE IF ~v2.subdev_on_csi[ch] THEN returned(mutex_unlock(v2, ch), -19)
     ELSE IF v2.pg_mode /\ v2.sensor_opened THEN returned(v2, -16)
     ELSE IF ~v2.pg_mode /\ v2.tpg_opened THEN returned(v2, -16)
     ELSE [v |-> v2, proceed |-> TRUE]

tegra_channel_open(v, ch, fh_ret, power_ret) ==
  LET e == open_enter(v, ch, fh_ret)
  IN IF e.proceed THEN open_power_on(e.v, ch, power_ret) ELSE e.v

tegra_channel_close(v, ch) ==
  LET v1 == mutex_lock(v, ch)
      is_singular == v1.fh_list[ch] = 1
      v2 == [v1 EXCEPT !.fh_list[ch] = @ - 1, !.files[ch] = @ - 1]
      v3 == IF ~v2.pg_mode
            THEN [v2 EXCEPT !.chan_power_on_refcnt[ch] = @ - 1] ELSE v2
      last == v3.power_on_refcnt - 1 = 0
      v4 == [v3 EXCEPT !.power_on_refcnt = @ - 1,
                       !.tpg_opened = IF last /\ v3.pg_mode THEN FALSE ELSE @,
                       !.sensor_opened =
                         IF last /\ ~v3.pg_mode THEN FALSE ELSE @]
  IN IF ~is_singular THEN video_return(mutex_unlock(v2, ch), ch, 0)
     ELSE video_return(mutex_unlock(v4, ch), ch, 0)

\* ------------------------------------------------------------------- state
SRes == {0, -1}
PortSets(c) == SUBSET Ports(c)

\* what the hardware can answer to one round of sync point waits: every wait
\* succeeds (errs: the ports whose error status then reads non-zero), or
\* the wait of port tmo times out (error_val: the ports whose frame-start
\* bit is then set in VI_INCR_SYNCPT_ERROR)
WaitOutcomes(c) ==
  {[tmo |-> NoTimeout, errs |-> e, error_val |-> {}] : e \in PortSets(c)}
  \cup {[tmo |-> t, errs |-> {}, error_val |-> v] :
          t \in Ports(c), v \in PortSets(c)}

\* the channel after tegra_channel_init and tegra_channel_fmts_bitmap_init:
\* total ports, and the active format of the sensor (w x h, bpp bytes a
\* pixel)
tegra_channel_init(pg, total, w, h, bpp) ==
  LET c == [pg_mode |-> pg, valid_ports |-> 1, total_ports |-> total,
            bypass |-> FALSE,
            capture_state |-> "IDLE", is_streaming |-> FALSE,
            bfirst_fstart |-> FALSE, released_bufs |-> 0,
            num_buffers |-> 0, save_index |-> 0, free_index |-> 0,
            sequence |-> 0,
            buffers |-> [i \in Slots |-> 0],
            buffer_state |-> [i \in Slots |-> "DEQUEUED"],
            syncpoint_fifo |-> [i \in 0 .. (MaxPorts - 1) |-> 0],
            capture |-> << >>,
            kthread_capture_start |-> "NULL",
            start_streaming_called |-> FALSE,
            format |-> [width |-> w, height |-> h], bpp |-> bpp,
            gang_mode |-> "CAMERA_NO_GANG_MODE",
            gang_width |-> 0, gang_height |-> 0,
            gang_bytesperline |-> 0, gang_sizeimage |-> 0,
            buffer_offset |-> [i \in 0 .. (MaxPorts - 1) |-> 0],
            image_size |-> [i \in 0 .. (MaxPorts - 1) |-> 0],
            requested_kbyteps |-> 0, aggregated_kbyteps |-> 0,
            done |-> << >>, ndone |-> 0, fs_seen |-> {}, hw |-> << >>,
            clean |-> TRUE]
  IN IF total > 1 THEN update_gang_mode(c) ELSE c

\* a channel of vp ports streams a format that needs all of them
Init ==
  /\ \E pg \in BOOLEAN, vp \in 1 .. MaxPorts :
       chan = IF vp > 1 THEN tegra_channel_init(pg, vp, 3840, 2160, 2)
              ELSE tegra_channel_init(pg, 1, 1920, 1080, 2)
  /\ orphans = << >>
  /\ csi = tegra_csi_probe(0)
  /\ vid = tegra_video_probe
  /\ pc = "none"
  /\ kerr = 0
  /\ kbuf = 0
  /\ should_stop = FALSE
  /\ capture_comp = 0
  /\ stop_pc = "idle"
  /\ stop_is_streaming = FALSE
  /\ nsub = 0

\* ----------------------------------------------------------------- actions
\* tegra_channel_buffer_queue
Submit ==
  /\ stop_pc = "idle"
  /\ nsub < MaxBufs
  /\ ~chan.bypass
  /\ nsub' = nsub + 1
  /\ chan' = [Fresh(chan) EXCEPT !.capture = Append(@, nsub + 1)]
  /\ UNCHANGED <<pc, kerr, kbuf, should_stop, capture_comp, stop_pc,
                 stop_is_streaming,
                 orphans, csi, vid>>

\* tegra_channel_start_streaming, non-bypass, every call succeeding
start_streaming_ok(c) ==
  LET c1 == Log(c, "ec_init", 0)
      c2 == IF ~c1.pg_mode THEN Log(c1, "pipeline_start", 0) ELSE c1
      c3 == LogPorts([c2 EXCEPT !.capture_state = "IDLE"],
                     <<"csi_start", "syncpt_min_eq_max">>, 0, c.valid_ports)
      c4 == tegra_channel_capture_setup(c3)
      c5 == tegra_channel_init_ring_buffer([c4 EXCEPT !.sequence = 0])
      c6 == tegra_channel_update_clknbw(c5, 1)
  IN [c6 EXCEPT !.kthread_capture_start = "task",
                !.start_streaming_called = TRUE, !.clean = TRUE]

StartStreaming ==
  /\ stop_pc = "idle"
  /\ ~chan.start_streaming_called
  /\ ~chan.bypass
  /\ chan' = start_streaming_ok(Fresh(chan))
  \* kthread_run overwrites chan->kthread_capture_start: a capture kthread
  \* that is still alive stays behind
  /\ pc = "none" \/ Len(orphans) < MaxOrphans
  /\ chan.aggregated_kbyteps <= MaxDrift * kbyteps(chan)
  /\ orphans' = IF pc = "none" THEN orphans
                ELSE Append(orphans,
                            [pc |-> pc, kerr |-> kerr, kbuf |-> kbuf])
  /\ pc' = "created"
  /\ should_stop' = FALSE
  /\ UNCHANGED <<kerr, kbuf, capture_comp, stop_pc, stop_is_streaming, nsub, csi, vid>>

\* tegra_channel_start_streaming failing at media_entity_pipeline_start
StartStreamingPipelineError ==
  /\ stop_pc = "idle"
  /\ ~chan.start_streaming_called
  /\ ~chan.pg_mode
  /\ chan' = tegra_channel_queued_buf_done(
               Log(Log(Fresh(chan), "ec_init", 0),
                   "pipeline_start", 0), "QUEUED")
  /\ UNCHANGED <<pc, kerr, kbuf, should_stop, capture_comp, stop_pc,
                 stop_is_streaming, nsub,
                 orphans, csi, vid>>

\* tegra_channel_start_streaming, non-bypass, failing at kthread_run: the
\* label error_capture_setup and what follows it.  sres: result of the
\* sub-devices' s_stream(off) call
start_streaming_kthread_error(c, sres) ==
  LET c1 == Log(c, "ec_init", 0)
      c2 == IF ~c1.pg_mode THEN Log(c1, "pipeline_start", 0) ELSE c1
      c3 == LogPorts([c2 EXCEPT !.capture_state = "IDLE"],
                     <<"csi_start", "syncpt_min_eq_max">>, 0, c.valid_ports)
      c4 == tegra_channel_capture_setup(c3)
      c5 == tegra_channel_init_ring_buffer([c4 EXCEPT !.sequence = 0])
      c6 == tegra_channel_update_clknbw(c5, 1)
      c7 == [c6 EXCEPT !.kthread_capture_start = "ERR_PTR"]
      c8 == IF ~c7.pg_mode
            THEN Log(tegra_channel_set_stream(c7, FALSE, sres).c,
                     "pipeline_stop", 0)
            ELSE c7
  IN tegra_channel_queued_buf_done(
       [c8 EXCEPT !.start_streaming_called = FALSE], "QUEUED")

StartStreamingKthreadError ==
  /\ stop_pc = "idle"
  /\ ~chan.start_streaming_called
  /\ ~chan.bypass
  /\ pc = "none"
  /\ chan.aggregated_kbyteps <= MaxDrift * kbyteps(chan)
  /\ \E sres \in SRes :
       chan' = start_streaming_kthread_error(Fresh(chan), sres)
  /\ UNCHANGED <<pc, kerr, kbuf, should_stop, capture_comp, stop_pc,
                 stop_is_streaming, nsub, orphans, csi, vid>>

\* the capture kthread is scheduled for the first time and enters its loop
KthreadEnter ==
  /\ pc = "created"
  /\ ~should_stop
  /\ pc' = "wait"
  /\ kerr' = 0
  /\ chan' = Fresh(chan)
  /\ UNCHANGED <<kbuf, should_stop, capture_comp, stop_pc,
                 stop_is_streaming, nsub,
                 orphans, csi, vid>>

\* kthread_stop reached the task before it ran: the thread function is
\* never called, so capture_comp is never completed
KthreadNeverRun ==
  /\ pc = "created"
  /\ should_stop
  /\ pc' = "exited"
  /\ chan' = Fresh(chan)
  /\ UNCHANGED <<kerr, kbuf, should_stop, capture_comp, stop_pc,
                 stop_is_streaming, nsub,
                 orphans, csi, vid>>

\* loop head: kthread_should_stop() -> complete(&chan->capture_comp); break
KthreadExit ==
  /\ pc = "wait"
  /\ should_stop
  /\ capture_comp' = capture_comp + 1
  /\ pc' = "exited"
  /\ chan' = Fresh(chan)
  /\ UNCHANGED <<kerr, kbuf, should_stop, stop_pc, stop_is_streaming,
                 nsub,
                 orphans, csi, vid>>

\* variant: the loop head does not test err
KthreadDequeue_err_ignored ==
  /\ pc = "wait"
  /\ ~should_stop
  /\ chan.capture # << >>
  /\ kbuf' = Head(chan.capture)
  /\ chan' = dequeue_buffer(Fresh(chan))
  /\ pc' = "frame"
  /\ UNCHANGED <<kerr, should_stop, capture_comp, stop_pc, stop_is_streaming,
                 nsub,
                 orphans, csi, vid>>

\* loop head: list not empty, no stop, err = 0 -> dequeue_buffer
KthreadDequeue ==
  /\ pc = "wait"
  /\ ~should_stop
  /\ kerr = 0
  /\ chan.capture # << >>
  /\ kbuf' = Head(chan.capture)
  /\ chan' = dequeue_buffer(Fresh(chan))
  /\ pc' = "frame"
  /\ UNCHANGED <<kerr, should_stop, capture_comp, stop_pc, stop_is_streaming,
                 nsub,
                 orphans, csi, vid>>

\* tegra_channel_capture_frame: program, enable on the first frame, arm
CaptureArm ==
  /\ pc = "frame"
  /\ \E sres \in SRes :
       LET r == capture_frame_arm(Fresh(chan), kbuf, sres)
       IN /\ chan' = r.c
          /\ kerr' = r.ret
          /\ pc' = IF r.ret # 0 THEN "wait" ELSE "armed"
  /\ UNCHANGED <<kbuf, should_stop, capture_comp, stop_pc, stop_is_streaming,
                 nsub,
                 orphans, csi, vid>>

\* tegra_channel_capture_frame: the sync point waits, the error status and
\* the ring buffer update
CaptureWait ==
  /\ pc = "armed"
  /\ \E o \in WaitOutcomes(chan) :
       chan' = capture_frame_wait(Fresh(chan), kbuf, o.tmo, o.errs,
                                  o.error_val)
  /\ kerr' = 0
  /\ pc' = "wait"
  /\ UNCHANGED <<kbuf, should_stop, capture_comp, stop_pc, stop_is_streaming,
                 nsub,
                 orphans, csi, vid>>

\* tegra_channel_stop_streaming up to kthread_stop in stop_kthreads
StopStreamingBegin ==
  /\ stop_pc = "idle"
  /\ chan.start_streaming_called
  /\ ~chan.bypass
  /\ chan.kthread_capture_start = "task"
  /\ stop_is_streaming' = chan.is_streaming
  /\ should_stop' = TRUE
  /\ stop_pc' = "kthread_stop"
  /\ chan' = Fresh(chan)
  /\ UNCHANGED <<pc, kerr, kbuf, capture_comp, nsub,
                 orphans, csi, vid>>

\* kthread_stop and wait_for_completion returned: the rest of stop_streaming
StopStreamingFinish ==
  /\ stop_pc = "kthread_stop"
  /\ pc = "exited"
  /\ capture_comp > 0
  /\ capture_comp' = capture_comp - 1
  /\ \E o \in WaitOutcomes(chan), sres \in SRes :
       chan' = stop_streaming_rest(Fresh(chan), stop_is_streaming, o.tmo,
                                   o.error_val, sres)
  /\ pc' = "none"
  /\ should_stop' = FALSE
  /\ stop_pc' = "idle"
  /\ UNCHANGED <<kerr, kbuf, stop_is_streaming, nsub,
                 orphans, csi, vid>>

Next ==
  \/ Submit
  \/ StartStreaming
  \/ StartStreamingPipelineError
  \/ KthreadEnter
  \/ KthreadNeverRun
  \/ KthreadExit
  \/ KthreadDequeue
  \/ CaptureArm
  \/ CaptureWait
  \/ StopStreamingBegin
  \/ StopStreamingFinish

Spec == Init /\ [][Next]_vars

\* a channel with a sensor, taken up where a start_streaming that failed in
\* media_entity_pipeline_start has just handed back the first MaxBufs - 2
\* buffers (a state Spec reaches)
ResumedChan(c) ==
  tegra_channel_queued_buf_done(
    Log(Log([c EXCEPT !.capture = [i \in 1 .. (MaxBufs - 2) |-> i]],
            "ec_init", 0), "pipeline_start", 0), "QUEUED")

ResumedRest ==
  /\ nsub = MaxBufs - 2
  /\ orphans = << >>
  /\ csi = tegra_csi_probe(0)
  /\ vid = tegra_video_probe
  /\ pc = "none"
  /\ kerr = 0
  /\ kbuf = 0
  /\ should_stop = FALSE
  /\ capture_comp = 0
  /\ stop_pc = "idle"
  /\ stop_is_streaming = FALSE

\* ... with one port
InitResumed ==
  /\ chan = ResumedChan(tegra_channel_init(FALSE, 1, 1920, 1080, 2))
  /\ ResumedRest

\* ... with one port, or with several ports and a format that needs them
InitLive ==
  /\ \E vp \in 1 .. MaxPorts :
       chan = ResumedChan(IF vp > 1
                          THEN tegra_channel_init(FALSE, vp, 3840, 2160, 2)
                          ELSE tegra_channel_init(FALSE, 1, 1920, 1080, 2))
  /\ ResumedRest

\* the handlers of Spec on the channels of InitLive, with the scheduling
\* of the capture kthread: a runnable kthread is run, and every sync point
\* wait returns (its timeout is finite)
SpecLive ==
  /\ InitLive /\ [][Next]_vars
  /\ WF_vars(KthreadEnter)
  /\ WF_vars(KthreadDequeue)
  /\ WF_vars(CaptureArm)
  /\ WF_vars(CaptureWait)
  /\ WF_vars(KthreadExit)

\* ------------------------------------------------------- format handlers
\* the formats the sub-device accepts in the model: 720p, 1080p, formats
\* above the gang threshold (one of odd width, one whose half line is not a
\* multiple of the surface alignment) and 4K
FormatWidths == {1280, 1920, 1921, 2000, 3840}
FormatHeights == {720, 1080, 1081, 2160}
FormatBpps == {1, 2, 4}

\* __tegra_channel_set_format with the sub-device accepting w x h
tegra_channel_set_format(c, w, h, bpp) ==
  LET c1 == [c EXCEPT !.format = [width |-> w, height |-> h], !.bpp = bpp]
  IN IF c1.total_ports > 1 THEN update_gang_mode(c1) ELSE c1

\* variant: the gang mode is updated on every channel
tegra_channel_s_dv_timings_unguarded(c, w, h) ==
  update_gang_mode([c EXCEPT !.format = [width |-> w, height |-> h]])

\* tegra_channel_s_dv_timings with the sub-devices accepting the timings
tegra_channel_s_dv_timings(c, w, h) ==
  LET c1 == [c EXCEPT !.format = [width |-> w, height |-> h]]
  IN IF c1.total_ports > 1 THEN update_gang_mode(c1) ELSE c1

\* VIDIOC_S_FMT: refused with -EBUSY once the queue is in use
SetFormat ==
  /\ stop_pc = "idle"
  /\ ~chan.start_streaming_called
  /\ nsub = 0
  /\ \E w \in FormatWidths, h \in FormatHeights, bpp \in FormatBpps :
       chan' = tegra_channel_set_format(Fresh(chan), w, h, bpp)
  /\ UNCHANGED <<pc, kerr, kbuf, should_stop, capture_comp, stop_pc,
                 stop_is_streaming, nsub, orphans, csi, vid>>

\* VIDIOC_S_DV_TIMINGS: no check of the queue
SDvTimings ==
  /\ stop_pc = "idle"
  /\ \E w \in FormatWidths, h \in FormatHeights :
       chan' = tegra_channel_s_dv_timings(Fresh(chan), w, h)
  /\ UNCHANGED <<pc, kerr, kbuf, should_stop, capture_comp, stop_pc,
                 stop_is_streaming, nsub, orphans, csi, vid>>

\* a channel of 1 .. MaxPorts ports whose sensor delivers any of the formats
InitGang ==
  /\ \E pg \in BOOLEAN, total \in 1 .. MaxPorts, w \in FormatWidths,
        h \in FormatHeights, bpp \in FormatBpps :
       chan = tegra_channel_init(pg, total, w, h, bpp)
  /\ orphans = << >>
  /\ csi = tegra_csi_probe(0)
  /\ vid = tegra_video_probe
  /\ pc = "none"
  /\ kerr = 0
  /\ kbuf = 0
  /\ should_stop = FALSE
  /\ capture_comp = 0
  /\ stop_pc = "idle"
  /\ stop_is_streaming = FALSE
  /\ nsub = 0

NextGang == SetFormat \/ SDvTimings \/ StartStreaming

\* the format handlers and the start of a stream, which programs the ports
SpecGang == InitGang /\ [][NextGang]_vars

\* VIDIOC_S_DV_TIMINGS while the bandwidth account of the device is off by
\* no more than MaxDrift requests of the channel
\* (the source switches between 720p and 1080p)
SDvTimingsAnyTime ==
  /\ stop_pc = "idle"
  /\ LET held == IF chan.start_streaming_called
                 THEN chan.requested_kbyteps ELSE 0
         d    == chan.aggregated_kbyteps - held
     IN /\ d <= MaxDrift * kbyteps(chan)
        /\ 0 - d <= MaxDrift * kbyteps(chan)
  /\ \E t \in {<<1280, 720>>, <<1920, 1080>>} :
       chan' = tegra_channel_s_dv_timings(Fresh(chan), t[1], t[2])
  /\ UNCHANGED <<pc, kerr, kbuf, should_stop, capture_comp, stop_pc,
                 stop_is_streaming, nsub, orphans, csi, vid>>

NextStart ==
  \/ Submit
  \/ StartStreaming
  \/ StartStreamingPipelineError
  \/ StartStreamingKthreadError
  \/ SDvTimingsAnyTime
  \/ KthreadEnter
  \/ KthreadNeverRun
  \/ KthreadExit
  \/ StopStreamingBegin
  \/ StopStreamingFinish

\* the start and the stop of a stream, with the start failing or not, the
\* submission of buffers and the change of the timings; no frame is captured
SpecStart == Init /\ [][NextStart]_vars

\* ---------------------------------------------------- port configuration
csi_port_is_valid(port) ==
  IF port < PORT_A THEN FALSE ELSE IF port > PORT_F THEN FALSE ELSE TRUE

RECURSIVE add_csi_bricks(_, _, _)
\* the loop of tegra_vi_get_port_info that adds a CSI brick for every four
\* lanes above the first four
add_csi_bricks(c, i, value) ==
  IF value <= 0 THEN c
  ELSE add_csi_bricks(
         [c EXCEPT !.port[i] = (c.port[i - 1] + 2) % (PORT_F + 1)],
         i + 1, value - 4)

\* dt: the endpoint of the device tree port whose reg is the channel index
\* (found: there is one), its csi-port and bus-width properties.  chan->port
\* is an array of unsigned char.
tegra_vi_get_port_info(c, dt) ==
  IF ~dt.found THEN [c |-> c, ret |-> 0]
  ELSE LET c1 == [c EXCEPT !.port[0] = dt.csi_port % 256,
                           !.numlanes = dt.bus_width]
       IN IF dt.bus_width > MAX_NUM_LANES
          THEN [c |-> c1, ret |-> -22]
          ELSE [c |-> add_csi_bricks(c1, 1, dt.bus_width - 4), ret |-> 0]

RECURSIVE csi_init_ports(_, _)
\* the loop of tegra_channel_csi_init over the valid entries of chan->port
csi_init_ports(c, idx) ==
  IF ~csi_port_is_valid(c.port[idx]) THEN c
  ELSE LET numlanes == c.numlanes - idx * 4
           lanes    == IF numlanes > 4 THEN 4 ELSE numlanes
       IN csi_init_ports(
            [c EXCEPT !.total_ports = @ + 1,
                      !.csi_lanes[c.port[idx]] = lanes],
            idx + 1)

\* tegra_channel_csi_init; the value tegra_vi_get_port_info returns is not
\* read by the code, port_info_ret keeps it for observation.  memset clears
\* TEGRA_CSI_BLOCKS bytes of syncpoint_fifo: those of its first entry.
tegra_channel_csi_init(c, pg, index, dt) ==
  LET c1 == [c EXCEPT !.gang_mode = "CAMERA_NO_GANG_MODE",
                      !.total_ports = 0,
                      !.port = [i \in DOMAIN c.port |-> INVALID_CSI_PORT],
                      !.syncpoint_fifo[0] = 0]
      r  == IF pg
            THEN [c |-> [c1 EXCEPT !.port[0] = index % 256, !.numlanes = 2],
                  ret |-> 0]
            ELSE tegra_vi_get_port_info(c1, dt)
      c2 == csi_init_ports(r.c, 0)
  IN [c2 EXCEPT !.valid_ports = IF c2.total_ports # 0 THEN 1 ELSE 0,
                !.port_info_ret = r.ret]

\* the bus widths of the device tree: those whose bricks the port arrays of
\* the model hold, and one above the limit of MAX_NUM_LANES
BusWidths ==
  (1 .. (IF 4 * MaxPorts < MAX_NUM_LANES THEN 4 * MaxPorts
         ELSE MAX_NUM_LANES))
    \cup {MAX_NUM_LANES + 1}

DeviceTrees ==
  {[found |-> FALSE, csi_port |-> 0, bus_width |-> 0]}
  \cup {[found |-> TRUE, csi_port |-> p, bus_width |-> l] :
          p \in PORT_A .. (PORT_F + 1), l \in BusWidths}

\* the channel of index `index` after tegra_channel_init (allocated zeroed,
\* every allocation and registration succeeding) and, once its sensor is
\* bound, tegra_channel_fmts_bitmap_init with the sensor's active format
tegra_channel_probe(pg, index, dt, w, h, bpp) ==
  LET c0 == [tegra_channel_init(pg, 1, w, h, bpp)
               EXCEPT !.total_ports = 0, !.valid_ports = 0]
            @@ [port |-> [i \in 0 .. MaxPorts |-> 0], numlanes |-> 0,
                csi_lanes |-> [i \in PORT_A .. PORT_F |-> 0],
                port_info_ret |-> 0, registered |-> FALSE]
      c1 == tegra_channel_csi_init(c0, pg, index, dt)
      c2 == [c1 EXCEPT !.buffer_offset[0] = 0, !.registered = TRUE]
  IN IF c2.total_ports > 1 THEN update_gang_mode(c2) ELSE c2

\* the sensors of the model start in 1080p at 2 bytes a pixel
InitProbe ==
  /\ \E pg \in BOOLEAN, index \in 0 .. 1, dt \in DeviceTrees :
       chan = tegra_channel_probe(pg, index, dt, 1920, 1080, 2)
  /\ orphans = << >>
  /\ csi = tegra_csi_probe(0)
  /\ vid = tegra_video_probe
  /\ pc = "none"
  /\ kerr = 0
  /\ kbuf = 0
  /\ should_stop = FALSE
  /\ capture_comp = 0
  /\ stop_pc = "idle"
  /\ stop_is_streaming = FALSE
  /\ nsub = 0

NextProbe == SetFormat \/ SDvTimings

\* the initialisation of a channel from the device tree, then the format
\* handlers
SpecProbe == InitProbe /\ [][NextProbe]_vars

\* ------------------------------------------------------ CSI error status
\* the channel and the capture kthread are left alone by the CSI calls
ChannelIdle ==
  /\ chan = tegra_channel_init(FALSE, 1, 1920, 1080, 2)
  /\ orphans = << >>
  /\ pc = "none"
  /\ kerr = 0
  /\ kbuf = 0
  /\ should_stop = FALSE
  /\ capture_comp = 0
  /\ stop_pc = "idle"
  /\ stop_is_streaming = FALSE
  /\ nsub = 0

ChannelVars == <<chan, pc, kerr, kbuf, should_stop, capture_comp, stop_pc,
                 stop_is_streaming, nsub, orphans>>

BrickPorts == {2 * csi.brick, 2 * csi.brick + 1}

\* the status bits the hardware raises in the model: the uncorrectable ones
\* and, in every register, bits the driver does not look at
StatusBits ==
  {<<"pp", b>> : b \in {13, 14}} \cup {<<"cil", b>> : b \in {0, 1}}
    \cup {<<"cilx", b>> : b \in {5, 16, 17}}

\* the hardware raises a status bit of a port
CsiHwEvent ==
  /\ csi.events < MaxEvents
  /\ \E q \in BrickPorts, e \in StatusBits :
       LET d == [csi EXCEPT !.events = @ + 1, !.log = << >>,
                            !.call = <<"hw_event", q>>]
       IN csi' = IF e[1] = "pp"
                 THEN [d EXCEPT !.pp_status[q] = @ \cup {e[2]}]
                 ELSE IF e[1] = "cil"
                      THEN [d EXCEPT !.cil_status[q] = @ \cup {e[2]}]
                      ELSE [d EXCEPT !.cilx_status[q] = @ \cup {e[2]}]
  /\ UNCHANGED <<ChannelVars, vid>>

CsiError ==
  /\ \E q \in BrickPorts :
       csi' = tegra_csi_error(CsiCall(csi, "tegra_csi_error", q), q)
  /\ UNCHANGED <<ChannelVars, vid>>

InitCsiError ==
  /\ ChannelIdle
  /\ \E b \in CsiBricks : csi = tegra_csi_probe(b)
  /\ vid = tegra_video_probe

NextCsiError == CsiHwEvent \/ CsiError

\* the error status of the ports of one brick, read while the hardware
\* raises status bits
SpecCsiError == InitCsiError /\ [][NextCsiError]_vars

\* -------------------------------------------------- CSI stream control
\* start, stop and recovery of the ports of one brick, each port with the
\* lanes set_csi_portinfo gave it
CsiLanes == 1 .. 4

CsiStart ==
  /\ \E q \in BrickPorts :
       csi' = tegra_csi_start_streaming(
                CsiCall(csi, "tegra_csi_start_streaming", q), q)
  /\ UNCHANGED <<ChannelVars, vid>>

CsiStop ==
  /\ \E q \in BrickPorts :
       csi' = tegra_csi_stop_streaming(
                CsiCall(csi, "tegra_csi_stop_streaming", q), q)
  /\ UNCHANGED <<ChannelVars, vid>>

CsiRecover ==
  /\ \E q \in BrickPorts :
       csi' = tegra_csi_error_recover(
                CsiCall(csi, "tegra_csi_error_recover", q), q)
  /\ UNCHANGED <<ChannelVars, vid>>

InitCsi ==
  /\ ChannelIdle
  /\ \E b \in CsiBricks, la \in CsiLanes, lb \in CsiLanes, pg \in BOOLEAN :
       csi = [set_csi_portinfo(set_csi_portinfo(tegra_csi_probe(b),
                                                2 * b, la), 2 * b + 1, lb)
              EXCEPT !.pg_mode = pg]
  /\ vid = tegra_video_probe

NextCsi == CsiStart \/ CsiStop \/ CsiRecover

SpecCsi == InitCsi /\ [][NextCsi]_vars

\* ------------------------------------------------------- open and close
\* a caller of open or close sleeps in mutex_lock until video_lock is free
VideoCall(name, ch) == [vid EXCEPT !.call = <<name, ch>>]

ChannelOpen ==
  /\ \E ch \in VideoChans, fh_ret \in {0, -12}, power_ret \in {0, -1} :
       /\ vid.video_lock[ch] = "free"
       /\ vid.fh_list[ch] < MaxFiles
       /\ vid' = tegra_channel_open(VideoCall("tegra_channel_open", ch), ch,
                                    fh_ret, power_ret)
  /\ UNCHANGED <<ChannelVars, csi>>

ChannelClose ==
  /\ \E ch \in VideoChans :
       /\ vid.video_lock[ch] = "free"
       /\ vid.files[ch] > 0
       /\ vid' = tegra_channel_close(VideoCall("tegra_channel_close", ch), ch)
  /\ UNCHANGED <<ChannelVars, csi>>

\* the media controller is switched to the test pattern generator
SetPgMode ==
  /\ ~vid.pg_mode
  /\ vid' = [vid EXCEPT !.pg_mode = TRUE, !.call = <<"pg_mode", 0>>]
  /\ UNCHANGED <<ChannelVars, csi>>

InitOpen ==
  /\ ChannelIdle
  /\ csi = tegra_csi_probe(0)
  /\ vid = tegra_video_probe

NextOpen == ChannelOpen \/ ChannelClose \/ SetPgMode

SpecOpen == InitOpen /\ [][NextOpen]_vars

\* ------------------------ two media controllers on one VI device
\* the media controller of the sensors (0) and the one of the test pattern
\* generator (1); each has its pg_mode, its power_on_refcnt and its
\* channels with their video_lock, and both point to the same VI device,
\* which holds sensor_opened and tpg_opened
Mcs == 0 .. 1

\* the flags of the VI device as controller m left them, seen by the other
SharedVi(mcs, m, r) ==
  [o \in Mcs |->
     IF o = m THEN r
     ELSE [mcs[o] EXCEPT !.sensor_opened = r.sensor_opened,
                         !.tpg_opened = r.tpg_opened]]

\* inside[m]: the channels of controller m whose open passed the two busy
\* checks and has not yet reached the first power-on
McOpenEnter ==
  /\ \E m \in Mcs, ch \in VideoChans, fh_ret \in {0, -12} :
       /\ vid.mc[m].video_lock[ch] = "free"
       /\ vid.mc[m].fh_list[ch] < MaxFiles
       /\ LET e == open_enter([vid.mc[m] EXCEPT
                                 !.call = <<"tegra_channel_open", ch>>],
                              ch, fh_ret)
          IN vid' = [mc |-> SharedVi(vid.mc, m, e.v),
                     inside |-> [vid.inside EXCEPT ![m] =
                                   IF e.proceed THEN @ \cup {ch} ELSE @]]
  /\ UNCHANGED <<ChannelVars, csi>>

McOpenPowerOn ==
  /\ \E m \in Mcs, ch \in VideoChans, power_ret \in {0, -1} :
       /\ ch \in vid.inside[m]
       /\ vid' = [mc |-> SharedVi(vid.mc, m,
                                 open_power_on(vid.mc[m], ch, power_ret)),
                  inside |-> [vid.inside EXCEPT ![m] = @ \ {ch}]]
  /\ UNCHANGED <<ChannelVars, csi>>

McClose ==
  /\ \E m \in Mcs, ch \in VideoChans :
       /\ vid.mc[m].video_lock[ch] = "free"
       /\ vid.mc[m].files[ch] > 0
       /\ vid' = [vid EXCEPT !.mc = SharedVi(vid.mc, m,
                     tegra_channel_close([vid.mc[m] EXCEPT
                       !.call = <<"tegra_channel_close", ch>>], ch))]
  /\ UNCHANGED <<ChannelVars, csi>>

InitMcs ==
  /\ ChannelIdle
  /\ csi = tegra_csi_probe(0)
  /\ vid = [mc |-> [m \in Mcs |->
                     [tegra_video_probe EXCEPT !.pg_mode = (m = 1)]],
            inside |-> [m \in Mcs |-> {}]]

NextMcs == McOpenEnter \/ McOpenPowerOn \/ McClose

SpecMcs == InitMcs /\ [][NextMcs]_vars

\* ------------------------------------------- stop of a stopped channel
\* tegra_channel_stop_streaming called on a channel that is not started
\* (never started, or stopped before): chan->kthread_capture_start is NULL,
\* so tegra_channel_stop_kthreads does nothing, and the rest of the handler
\* runs
StopStreamingStopped ==
  /\ stop_pc = "idle"
  /\ ~chan.start_streaming_called
  /\ ~chan.bypass
  /\ chan.kthread_capture_start = "NULL"
  /\ chan.aggregated_kbyteps + MaxDrift * kbyteps(chan) > 0
  /\ \E o \in WaitOutcomes(chan), sres \in SRes :
       chan' = stop_streaming_rest(Fresh(chan), chan.is_streaming, o.tmo,
                                   o.error_val, sres)
  /\ UNCHANGED <<pc, kerr, kbuf, should_stop, capture_comp, stop_pc,
                 stop_is_streaming, nsub, orphans, csi, vid>>

NextRestop == Next \/ StopStreamingStopped

\* the handlers of Spec, and stop_streaming called on a stopped channel too
SpecRestop == Init /\ [][NextRestop]_vars

\* ------------------------------------------------- bypass control (s_ctrl)
\* tegra_channel_s_ctrl, V4L2_CID_VI_BYPASS_MODE: an ioctl, serialised with
\* the other ioctls of the video node but not with the capture kthread
SetBypass ==
  /\ stop_pc = "idle"
  /\ \E on \in BOOLEAN :
       /\ on # chan.bypass
       /\ chan' = [Fresh(chan) EXCEPT !.bypass = on]
  /\ UNCHANGED <<pc, kerr, kbuf, should_stop, capture_comp, stop_pc,
                 stop_is_streaming, nsub, orphans, csi, vid>>

\* tegra_channel_buffer_queue in bypass mode: the buffer is not queued
SubmitBypass ==
  /\ stop_pc = "idle"
  /\ nsub < MaxBufs
  /\ chan.bypass
  /\ nsub' = nsub + 1
  /\ chan' = Fresh(chan)
  /\ UNCHANGED <<pc, kerr, kbuf, should_stop, capture_comp, stop_pc,
                 stop_is_streaming, orphans, csi, vid>>

\* tegra_channel_start_streaming from the bypass branch on
start_streaming_bypass(c, sres) ==
  LET c1 == Log(c, "ec_init", 0)
      c2 == IF ~c1.pg_mode THEN Log(c1, "pipeline_start", 0) ELSE c1
      r  == tegra_channel_set_stream(c2, TRUE, sres)
  IN IF r.ret < 0
     THEN tegra_channel_queued_buf_done(
            [(IF ~r.c.pg_mode THEN Log(r.c, "pipeline_stop", 0) ELSE r.c)
               EXCEPT !.start_streaming_called = FALSE], "QUEUED")
     ELSE [tegra_channel_mipi_cal(Log(r.c, "bias_pad_enable", 0))
             EXCEPT !.start_streaming_called = TRUE]

StartStreamingBypass ==
  /\ stop_pc = "idle"
  /\ ~chan.start_streaming_called
  /\ chan.bypass
  /\ \E sres \in SRes : chan' = start_streaming_bypass(Fresh(chan), sres)
  /\ UNCHANGED <<pc, kerr, kbuf, should_stop, capture_comp, stop_pc,
                 stop_is_streaming, nsub, orphans, csi, vid>>

\* tegra_channel_stop_streaming with chan->bypass set: the capture kthread
\* is not stopped, the ring and the queue are not drained
stop_streaming_bypass(c, sres) ==
  LET c1 == IF ~c.pg_mode
            THEN Log(tegra_channel_set_stream(c, FALSE, sres).c,
                     "pipeline_stop", 0)
            ELSE c
  IN [Log(c1, "bias_pad_disable", 0) EXCEPT !.start_streaming_called = FALSE]

StopStreamingBypass ==
  /\ stop_pc = "idle"
  /\ chan.start_streaming_called
  /\ chan.bypass
  /\ \E sres \in SRes : chan' = stop_streaming_bypass(Fresh(chan), sres)
  /\ UNCHANGED <<pc, kerr, kbuf, should_stop, capture_comp, stop_pc,
                 stop_is_streaming, nsub, orphans, csi, vid>>

\* tegra_channel_stop_streaming, non-bypass, chan->kthread_capture_start
\* NULL (the stream was started in bypass mode): stop_kthreads does nothing
StopStreamingNoKthread ==
  /\ stop_pc = "idle"
  /\ chan.start_streaming_called
  /\ ~chan.bypass
  /\ chan.kthread_capture_start = "NULL"
  /\ chan.aggregated_kbyteps + MaxDrift * kbyteps(chan) > 0
  /\ \E o \in WaitOutcomes(chan), sres \in SRes :
       chan' = stop_streaming_rest(Fresh(chan), chan.is_streaming, o.tmo,
                                   o.error_val, sres)
  /\ UNCHANGED <<pc, kerr, kbuf, should_stop, capture_comp, stop_pc,
                 stop_is_streaming, nsub, orphans, csi, vid>>

\* a capture kthread left behind runs the same loop; kthread_should_stop()
\* is never true for it
OrphanEnter ==
  \E i \in DOMAIN orphans :
    /\ orphans[i].pc = "created"
    /\ orphans' = [orphans EXCEPT ![i].pc = "wait", ![i].kerr = 0]
    /\ chan' = Fresh(chan)
    /\ UNCHANGED <<pc, kerr, kbuf, should_stop, capture_comp, stop_pc,
                   stop_is_streaming, nsub, csi, vid>>

OrphanDequeue ==
  \E i \in DOMAIN orphans :
    /\ orphans[i].pc = "wait"
    /\ orphans[i].kerr = 0
    /\ chan.capture # << >>
    /\ orphans' = [orphans EXCEPT ![i].pc = "frame",
                                  ![i].kbuf = Head(chan.capture)]
    /\ chan' = dequeue_buffer(Fresh(chan))
    /\ UNCHANGED <<pc, kerr, kbuf, should_stop, capture_comp, stop_pc,
                   stop_is_streaming, nsub, csi, vid>>

OrphanArm ==
  \E i \in DOMAIN orphans, sres \in SRes :
    /\ orphans[i].pc = "frame"
    /\ LET r == capture_frame_arm(Fresh(chan), orphans[i].kbuf, sres)
       IN /\ chan' = r.c
          /\ orphans' = [orphans EXCEPT
                           ![i].kerr = r.ret,
                           ![i].pc = IF r.ret # 0 THEN "wait" ELSE "armed"]
    /\ UNCHANGED <<pc, kerr, kbuf, should_stop, capture_comp, stop_pc,
                   stop_is_streaming, nsub, csi, vid>>

OrphanWait ==
  \E i \in DOMAIN orphans, o \in WaitOutcomes(chan) :
    /\ orphans[i].pc = "armed"
    /\ chan' = capture_frame_wait(Fresh(chan), orphans[i].kbuf, o.tmo,
                                  o.errs, o.error_val)
    /\ orphans' = [orphans EXCEPT ![i].kerr = 0, ![i].pc = "wait"]
    /\ UNCHANGED <<pc, kerr, kbuf, should_stop, capture_comp, stop_pc,
                   stop_is_streaming, nsub, csi, vid>>

NextCtrl ==
  \/ Next
  \/ SetBypass
  \/ SubmitBypass
  \/ StartStreamingBypass
  \/ StopStreamingBypass
  \/ StopStreamingNoKthread
  \/ OrphanEnter
  \/ OrphanDequeue
  \/ OrphanArm
  \/ OrphanWait

\* the handlers of Spec together with the bypass control
\* ... on the channel of InitResumed
SpecCtrl == InitResumed /\ [][NextCtrl]_vars

TypeOK ==
  /\ chan.capture_state \in CaptureStates
  /\ chan.num_buffers \in 0 .. QUEUED_BUFFERS
  /\ chan.save_index \in Slots
  /\ chan.free_index \in Slots


\* ------------------------------------------------------------ observations
\* the buffers held by the ring, oldest first
RingBufs ==
  [i \in 1 .. chan.num_buffers |->
     chan.buffers[(chan.free_index + i - 1) % QUEUED_BUFFERS]]

InLog(op, index) == \E i \in 1 .. Len(chan.hw) : chan.hw[i] = <<op, index>>
OpInLog(op) == \E i \in 1 .. Len(chan.hw) : chan.hw[i][1] = op
CountInLog(op, index) ==
  Cardinality({i \in 1 .. Len(chan.hw) : chan.hw[i] = <<op, index>>})
DoneOf(vb) == {i \in 1 .. Len(chan.done) : chan.done[i].buf = vb}

\* the step that led to the current state is the wait part of
\* tegra_channel_capture_frame for buffer kbuf
AfterCaptureWait == pc = "wait" /\ InLog("syncpt_wait", 0)
\* ... or its arm part, ended by a failed stream enable
AfterEnableFailure == pc = "wait" /\ kerr # 0 /\ InLog("surface", 0)
\* ... or tegra_channel_stop_streaming, which has just returned
AfterStop == stop_pc = "idle" /\ InLog("bias_pad_disable", 0)
Streaming == chan.start_streaming_called /\ stop_pc = "idle"


\* ------------------------------------------------------------------ claims

\* C1: buffers are handed back to the buffer consumer (vb2_buffer_done) in
\* the order in which they were submitted: every call hands back the oldest
\* buffer not handed back yet, so no buffer is completed before a buffer
\* submitted earlier.
C1_CompletionInSubmissionOrder ==
  \A i \in 1 .. Len(chan.done) :
    chan.done[i].buf = chan.ndone - Len(chan.done) + i

\* a step that completed a buffer dequeued after older ones were still held
C1_Witness ==
  /\ Len(chan.done) >= 3
  /\ chan.done[1].seq >= 0
  /\ chan.done[Len(chan.done)].seq = -1
  /\ AfterStop

\* C2: a buffer whose own capture ended in a sync point timeout, a non-zero
\* error status or a failed stream enable is completed in that same step,
\* exactly once and with ERROR status, and is then held neither by the ring
\* nor by the queue; the buffer captured by tegra_channel_capture_done at
\* stream stop is completed with ERROR as well.
C2_FailedCaptureCompletedWithError ==
  /\ ((AfterCaptureWait \/ AfterEnableFailure)
        /\ chan.capture_state \in {"TIMEOUT", "ERROR"})
       => /\ Cardinality(DoneOf(kbuf)) = 1
          /\ \A i \in DoneOf(kbuf) : chan.done[i].state = "ERROR"
          /\ chan.ndone = kbuf
          /\ chan.num_buffers = 0
          /\ \A j \in 1 .. Len(chan.capture) : chan.capture[j] # kbuf
  /\ (AfterStop /\ OpInLog("arm_mw_ack"))
       => \A i \in 1 .. Len(chan.done) : chan.done[i].state = "ERROR"

C2_Witness ==
  /\ AfterCaptureWait
  /\ chan.capture_state = "TIMEOUT"
  /\ Len(chan.done) = 2
  /\ chan.done[2].buf = kbuf

\* C3: the ring followed by the submission queue always holds exactly the
\* submitted buffers that are not completed yet, each once and in order;
\* when stop_streaming returns both are empty (num_buffers = 0), so every
\* submitted buffer has been completed exactly once.
C3_StopLeavesNoBuffer ==
  /\ RingBufs \o chan.capture =
       [i \in 1 .. (nsub - chan.ndone) |-> chan.ndone + i]
  /\ AfterStop => /\ chan.capture = << >>
                  /\ chan.num_buffers = 0
                  /\ chan.ndone = nsub

C3_Witness ==
  /\ AfterStop
  /\ chan.ndone = nsub
  /\ Len(chan.done) >= 4
  /\ chan.done[2].seq >= 0
  /\ chan.done[3].seq = -1

C5_RingCapacity ==
  /\ chan.num_buffers <= QUEUED_BUFFERS
  /\ \A i \in 1 .. chan.num_buffers : RingBufs[i] = chan.ndone + i

\* the ring at its fullest, right after add_buffer_to_ring
C5_Witness ==
  /\ pc = "frame"
  /\ chan.num_buffers = QUEUED_BUFFERS - 1
  /\ RingBufs[chan.num_buffers] = kbuf


\* C6 as stated: a buffer is completed with success only after the
\* frame-start events of the two captures that follow it have been observed.
C6_TwoFrameLag ==
  \A i \in 1 .. Len(chan.done) :
    chan.done[i].state = "DONE"
      => {chan.done[i].buf + 1, chan.done[i].buf + 2} \subseteq chan.done[i].fs

\* C7: in a capture that ends with capture state GOOD, the ring holds no
\* buffer older than the second last one captured before; the buffer
\* captured two frames earlier (kbuf - 2), if the ring holds it, is the one
\* buffer released in that step, and every younger buffer stays in the ring.
C7_ReleasedAtSecondNextFrameStart ==
  [][(pc = "armed" /\ pc' = "wait" /\ chan'.capture_state = "GOOD")
       => LET before == {RingBufs[i] : i \in 1 .. chan.num_buffers}
              after  == {RingBufs'[i] : i \in 1 .. chan'.num_buffers}
          IN /\ before \subseteq {kbuf - 2, kbuf - 1, kbuf}
             /\ kbuf \in after
             /\ after = before \ {kbuf - 2}
             /\ (kbuf - 2) \in before
                  => /\ chan.num_buffers = QUEUED_BUFFERS - 1
                     /\ Len(chan'.done) = 1
                     /\ chan'.done[1].buf = kbuf - 2
             /\ (kbuf - 2) \notin before => chan'.done = << >>]_vars

\* buffer 1 released at the frame start of buffer 3
C7_Witness ==
  /\ AfterCaptureWait /\ chan.capture_state = "GOOD"
  /\ kbuf = 3
  /\ Len(chan.done) = 1
  /\ chan.done[1].buf = 1
  /\ chan.num_buffers = 2

\* C8: when a sync point wait of a capture times out, capture_state goes
\* from GOOD to TIMEOUT and the buffer being captured is completed with
\* ERROR in that same step, before the capture task is back at its loop
\* head.
C8_TimeoutCompletesBuffer ==
  [][(pc = "armed" /\ pc' = "wait" /\ OpInLog("syncpt_timeout")')
       => /\ chan.capture_state = "GOOD"
          /\ chan'.capture_state = "TIMEOUT"
          /\ \E i \in 1 .. Len(chan'.done) :
               /\ chan'.done[i].buf = kbuf
               /\ chan'.done[i].state = "ERROR"
          /\ chan'.num_buffers = 0]_vars

C8_Witness ==
  /\ AfterCaptureWait
  /\ chan.valid_ports = 2
  /\ InLog("syncpt_timeout", 1)
  /\ chan.capture_state = "TIMEOUT"
  /\ Len(chan.done) = 3
  /\ chan.done[3].buf = kbuf

\* C9: on a sync point timeout tegra_csi_error_recover is called exactly
\* once for every valid port, and for no other port, whichever wait timed
\* out.
C9_RecoverOncePerPort ==
  OpInLog("syncpt_timeout")
    => \A p \in 0 .. (MaxPorts - 1) :
         CountInLog("csi_error_recover", p) =
           (IF p < chan.valid_ports THEN 1 ELSE 0)

\* two valid ports, the wait of the first one times out
C9_Witness ==
  /\ AfterCaptureWait
  /\ chan.valid_ports = 2
  /\ InLog("syncpt_timeout", 0)
  /\ CountInLog("csi_error_recover", 1) = 1

\* the operations of tegra_channel_ec_recover
EcRecoverOps ==
  {"csi_status", "pad_control_disable", "cg_disable", "csi_error_recover",
   "image_def_clear", "clear_singleshot", "syncpoint_fifo_full",
   "syncpt_error_clear", "cg_enable",
   "capture_setup", "csi_stop", "csi_start", "syncpt_min_eq_max"}

\* C10: when every wait of a capture succeeds and the error status of the
\* valid ports is non-zero (not in test pattern mode), the buffer is
\* completed with ERROR, capture_state becomes ERROR and no operation of
\* tegra_channel_ec_recover is issued for that frame.
C10_ErrorStatusNoRecover ==
  (AfterCaptureWait /\ OpInLog("error_status_report"))
    => /\ ~chan.pg_mode
       /\ ~OpInLog("syncpt_timeout")
       /\ chan.capture_state = "ERROR"
       /\ Cardinality(DoneOf(kbuf)) = 1
       /\ \A i \in DoneOf(kbuf) : chan.done[i].state = "ERROR"
       /\ \A i \in 1 .. Len(chan.hw) : chan.hw[i][1] \notin EcRecoverOps

C10_Witness ==
  /\ AfterCaptureWait
  /\ OpInLog("error_status_report")
  /\ chan.valid_ports = 2
  /\ chan.capture_state = "ERROR"
  /\ Len(chan.done) = 2
  /\ chan.done[2].buf = kbuf

\* the capture kthreads of the channel that are alive
AliveTasks == (IF pc \in {"none", "exited"} THEN 0 ELSE 1) + Len(orphans)

\* C11 as stated: when tegra_channel_stop_streaming has returned, whatever
\* start, submit, bypass control and stop calls came before, no capture
\* kthread of the channel is alive any more (so none can write a channel
\* field afterwards).
C11_StopEndsCaptureTask == AfterStop => AliveTasks = 0

\* C12 as stated: at any time at most one capture kthread of the channel is
\* alive, so the ring buffer and capture_state have at most one writer.
C12_AtMostOneCaptureTask == AliveTasks <= 1

C14_StopLeavesIdle == AfterStop => chan.capture_state = "IDLE"

\* C15 as stated: every buffer that tegra_channel_stop_streaming completes
\* (the buffers the ring held and the buffers the queue held) is completed
\* with ERROR status.
C15_StopCompletesWithError ==
  AfterStop => \A i \in 1 .. Len(chan.done) : chan.done[i].state = "ERROR"

\* the ring-buffer bookkeeping of a channel
RingState(c) ==
  <<c.num_buffers, c.save_index, c.free_index, c.released_bufs,
    c.bfirst_fstart, c.buffers, c.buffer_state, c.sequence>>

\* C16 as stated: tegra_channel_stop_streaming called on a channel that is
\* already stopped completes no buffer and leaves capture_state, the ring
\* bookkeeping, the submission queue, the streaming flag and the aggregated
\* bandwidth request of the device as they were.
C16_StopOfStoppedIsNoOp ==
  [][(~chan.start_streaming_called /\ stop_pc = "idle" /\ AfterStop')
       => /\ chan'.done = << >>
          /\ chan'.capture_state = chan.capture_state
          /\ RingState(chan') = RingState(chan)
          /\ chan'.capture = chan.capture
          /\ chan'.is_streaming = chan.is_streaming
          /\ chan'.aggregated_kbyteps = chan.aggregated_kbyteps]_vars

\* the capture of buffer kbuf has just ended in a sync point timeout or in
\* an error status
AfterFailedFrame ==
  AfterCaptureWait /\ chan.capture_state \in {"TIMEOUT", "ERROR"}

\* C17: after a capture that ended in a sync point timeout or an error
\* status the capture kthread is back at its loop head with err = 0, and
\* the next buffer of the queue, once there is one, is dequeued and its
\* capture armed with capture_state GOOD again, unless a stop is requested
\* first.  (SpecLive submits the buffers MaxBufs - 1 and MaxBufs: the next
\* buffer after a failed capture is MaxBufs.)
C17_CaptureContinuesAfterFailure ==
  /\ [](AfterFailedFrame => (pc = "wait" /\ kerr = 0))
  /\ (AfterFailedFrame /\ chan.capture # << >>)
       ~> (\/ /\ pc = "armed" /\ chan.capture_state = "GOOD"
              /\ kbuf = MaxBufs /\ chan.ndone = MaxBufs - 1
           \/ should_stop)

\* the last buffer armed in state GOOD right after the capture of the one
\* before it failed
C17_Witness ==
  /\ pc = "armed" /\ kbuf = MaxBufs /\ chan.capture_state = "GOOD"
  /\ chan.sequence = 1 /\ ~chan.clean
  /\ chan.num_buffers = 1

\* the operations of tegra_channel_enable_stream (sensor, no test pattern)
\* and the enable-memory-write step, issued by the step just taken
EnableSequenceCount == CountInLog("pad_control_enable", 0)
MemoryWriteCount(p) == CountInLog("dest_mem", p)

\* C18 as stated: the enable-streaming sequence and the enable-memory-write
\* step are executed on the first frame captured after stream start (the
\* capture that finds capture_state IDLE) and on no other frame of the
\* session.
C18_Original_EnableOncePerSession ==
  [][(pc = "frame" /\ pc' # "frame")
       => ((EnableSequenceCount' > 0 \/ MemoryWriteCount(0)' > 0)
             <=> chan.capture_state = "IDLE")]_vars

\* C18 as amended: the enable-streaming sequence is executed exactly once
\* in the capture of the first frame after stream start and in the capture
\* that follows a capture ended by a sync point timeout or an error status
\* (the ring was re-initialised), and in no other capture; the
\* enable-memory-write step is executed once for every valid port in those
\* captures when the enable succeeded, and in no other capture.
C18_EnableAfterEveryRingInit ==
  [][(pc = "frame" /\ pc' # "frame")
       => LET again == chan.capture_state \in {"IDLE", "TIMEOUT", "ERROR"}
          IN /\ EnableSequenceCount' = (IF again THEN 1 ELSE 0)
             /\ \A p \in 0 .. (MaxPorts - 1) :
                  MemoryWriteCount(p)' =
                    (IF again /\ pc' = "armed" /\ p < chan.valid_ports
                     THEN 1 ELSE 0)]_vars

\* the enable sequence run again for the capture after a failed one
C18_Witness ==
  /\ pc = "armed"
  /\ chan.sequence > 0
  /\ ~chan.clean
  /\ EnableSequenceCount = 1
  /\ MemoryWriteCount(chan.valid_ports - 1) = 1

\* C19: syncpoint_fifo[port] always lies in 0 .. SYNCPT_FIFO_DEPTH; in every
\* capture (tegra_channel_capture_frame) the expected threshold of each
\* valid port is advanced once, and the sync point increment request of the
\* port is armed, once, if and only if its counter was 0; otherwise the
\* counter is decremented by exactly one and nothing is armed for the port.
C19_FifoDebtCounter ==
  /\ [](\A p \in 0 .. (MaxPorts - 1) :
          chan.syncpoint_fifo[p] \in 0 .. SYNCPT_FIFO_DEPTH)
  /\ [][(pc = "frame" /\ pc' # "frame")
          => \A p \in 0 .. (MaxPorts - 1) :
               IF p >= chan.valid_ports
               THEN /\ chan'.syncpoint_fifo[p] = chan.syncpoint_fifo[p]
                    /\ CountInLog("arm_syncpt", p)' = 0
                    /\ CountInLog("syncpt_incr_max", p)' = 0
               ELSE /\ CountInLog("syncpt_incr_max", p)' = 1
                    /\ IF chan.syncpoint_fifo[p] = 0
                       THEN /\ CountInLog("arm_syncpt", p)' = 1
                            /\ chan'.syncpoint_fifo[p] = 0
                       ELSE /\ CountInLog("arm_syncpt", p)' = 0
                            /\ chan'.syncpoint_fifo[p] =
                                 chan.syncpoint_fifo[p] - 1]_vars

\* a capture that arms port 0 and pays one unit of the debt of port 1
C19_Witness ==
  /\ pc = "armed"
  /\ chan.valid_ports = 2
  /\ InLog("arm_syncpt", 0)
  /\ ~InLog("arm_syncpt", 1)
  /\ InLog("syncpt_incr_max", 1)
  /\ chan.syncpoint_fifo[1] = SYNCPT_FIFO_DEPTH - 1

\* the least multiple of TEGRA_SURFACE_ALIGNMENT that is not below n
RoundedToSurface(n) ==
  ((n + TEGRA_SURFACE_ALIGNMENT - 1) \div TEGRA_SURFACE_ALIGNMENT)
    * TEGRA_SURFACE_ALIGNMENT

\* the width field of TEGRA_VI_CSI_IMAGE_SIZE of port p
ProgrammedWidth(p) == chan.image_size[p] % (2 ^ IMAGE_SIZE_HEIGHT_OFFSET)

\* C20: on a channel of two or more ports in left-right gang mode with
\* format width W, buffer_offset[0] is 0 and buffer_offset[1] is
\* gang_bytesperline (W/2 pixels) rounded up to the surface alignment, and
\* when the ports have just been programmed (tegra_channel_capture_setup)
\* the width in the image-size register of every valid port is W/2.
C20_GangGeometry ==
  (chan.total_ports >= 2 /\ chan.gang_mode = "CAMERA_GANG_L_R")
    => /\ chan.valid_ports = chan.total_ports
       /\ chan.gang_bytesperline = (chan.format.width \div 2) * chan.bpp
       /\ chan.buffer_offset[0] = 0
       /\ chan.buffer_offset[1] = RoundedToSurface(chan.gang_bytesperline)
       /\ OpInLog("capture_setup")
            => \A p \in Ports(chan) :
                 ProgrammedWidth(p) = chan.format.width \div 2

\* a two-port channel started with a format whose half line is not a
\* multiple of the alignment
C20_Witness ==
  /\ chan.total_ports = 2
  /\ chan.gang_mode = "CAMERA_GANG_L_R"
  /\ chan.format.width = 2000
  /\ chan.bpp = 1
  /\ InLog("capture_setup", 1)
  /\ ProgrammedWidth(1) = 1000
  /\ chan.buffer_offset[1] = 1024

\* chan->format.bytesperline: the line stride programmed into
\* TEGRA_VI_CSI_SURFACE0_STRIDE of every valid port
format_bytesperline(c) == c.format.width * c.bpp

\* the bytes port i writes for line k of a capture start at
\* buf->addr + PortLineStart(c, i, k) and are gang_bytesperline long
PortLineStart(c, i, k) == c.buffer_offset[i] + k * format_bytesperline(c)

\* some line of port i and some line of port j share a byte: line k of port
\* i and line k + d of port j, where only the distance d of the two lines
\* matters (the lines are gang_height in number)
PortsOverlap(c, i, j) ==
  \E d \in (1 - c.gang_height) .. (c.gang_height - 1) :
    /\ PortLineStart(c, i, 0) < PortLineStart(c, j, d) + c.gang_bytesperline
    /\ PortLineStart(c, j, d) < PortLineStart(c, i, 0) + c.gang_bytesperline

\* C21 as stated: every buffer_offset[i] is a multiple of the surface
\* alignment, and the memory regions that two different valid ports write
\* during one capture (lines of gang_bytesperline bytes, the first at
\* buffer_offset[i], one every format.bytesperline bytes) do not overlap.
C21_PortRegionsDisjoint ==
  /\ \A i \in DOMAIN chan.buffer_offset :
       chan.buffer_offset[i] % TEGRA_SURFACE_ALIGNMENT = 0
  /\ chan.valid_ports > 1
       => \A i, j \in Ports(chan) : i < j => ~PortsOverlap(chan, i, j)

\* C22: valid_ports never exceeds total_ports, whatever the device tree
\* said at the initialisation of the channel and whatever format and DV
\* timing changes followed, and valid_ports is 0 only when total_ports is 0.
C22_ValidPortsWithinTotal ==
  /\ chan.valid_ports <= chan.total_ports
  /\ chan.valid_ports = 0 <=> chan.total_ports = 0

\* a channel of two bricks (ports F and B) put into gang mode by a format
\* change
C22_Witness ==
  /\ chan.total_ports = 2
  /\ chan.valid_ports = 2
  /\ chan.port[0] = PORT_F /\ chan.port[1] = 1
  /\ chan.numlanes = 8
  /\ chan.format.width = 3840
  /\ chan.bpp = 4

\* C23 as stated: a device tree port of more than 12 lanes is rejected with
\* an error code and commits nothing: the port list of the channel is still
\* all INVALID_CSI_PORT, the lane count and the port counts are still 0, no
\* lane count was handed to the CSI device, and the channel is not brought
\* up (its video node is not registered).
C23_RejectedPortCommitsNothing ==
  chan.port_info_ret # 0
    => /\ \A i \in DOMAIN chan.port : chan.port[i] = INVALID_CSI_PORT
       /\ chan.numlanes = 0
       /\ chan.total_ports = 0
       /\ chan.valid_ports = 0
       /\ \A q \in DOMAIN chan.csi_lanes : chan.csi_lanes[q] = 0
       /\ ~chan.registered

\* the status registers of port q of a CSI device
StatusOf(d, q) == <<d.pp_status[q], d.cil_status[q], d.cilx_status[q]>>

\* C24: tegra_csi_error(port) returns non-zero if and only if an
\* uncorrectable bit is set (0x4000 of the pixel parser status, 0x02 of the
\* CIL status, 0x00020020 of the CIL-extended status), so 0 when only other
\* bits are set; it clears the three status registers of the port and
\* leaves those of the other ports alone; a second call on the port with no
\* hardware event in between returns 0.
C24_ErrorIffUncorrectable ==
  [][\A q \in CsiPortNums :
       csi'.call = <<"tegra_csi_error", q>>
         => /\ (csi'.ret # 0)
                 <=> \/ 14 \in csi.pp_status[q]
                     \/ 1 \in csi.cil_status[q]
                     \/ 5 \in csi.cilx_status[q]
                     \/ 17 \in csi.cilx_status[q]
            /\ StatusOf(csi', q) = <<{}, {}, {}>>
            /\ \A o \in CsiPortNums \ {q} :
                 StatusOf(csi', o) = StatusOf(csi, o)
            /\ csi.call = <<"tegra_csi_error", q>> => csi'.ret = 0]_vars

\* a call that finds an uncorrectable CIL-extended bit together with a bit
\* that is ignored, and reports exactly the former
C24_Witness ==
  /\ csi.call[1] = "tegra_csi_error"
  /\ csi.ret = 32
  /\ Len(csi.log) = 3
  /\ csi.log[3] = <<"CILX_STATUS", csi.call[2], {5, 16}>>

\* the step of the recovery sequence a register write belongs to, 0 if none
RecoverStage(e) ==
  IF e[1] = "PATTERN_GENERATOR_CTRL" /\ e[3] = "PG_ENABLE" THEN 1
  ELSE IF e[1] = "CIL_SW_SENSOR_RESET" /\ e[3] = 1 THEN 2
  ELSE IF e[1] = "CSI_SW_STATUS_RESET" /\ e[3] = 1 THEN 3
  ELSE IF e[1] = "usleep_range" THEN 4
  ELSE IF e[1] = "CIL_SW_SENSOR_RESET" /\ e[3] = 0 THEN 5
  ELSE IF e[1] = "CSI_SW_STATUS_RESET" /\ e[3] = 0 THEN 6
  ELSE IF e[1] = "PATTERN_GENERATOR_CTRL" /\ e[3] = "PG_DISABLE" THEN 7
  ELSE 0

\* the ports a call on port_num acts on: the port, or both ports of its
\* brick when it has 4 lanes
AffectedPorts(d, port_num) ==
  IF d.lanes[port_num] = 4
  THEN {PortAOf(port_num), PortAOf(port_num) + 1}
  ELSE {port_num}

\* the ports or bricks a call wrote in a stage of the recovery
RecoverTargets(lg, st) ==
  {lg[i][2] : i \in {k \in 1 .. Len(lg) : RecoverStage(lg[k]) = st}}

\* C25: tegra_csi_error_recover writes, for the named port alone when it has
\* other than 4 lanes and for both ports of its brick when it has 4, in this
\* order: test-pattern enable, sensor-reset assert, status-reset assert, the
\* delay, sensor-reset de-assert, status-reset de-assert, test-pattern
\* disable; when it returns no affected port has a reset asserted or the
\* test-pattern generator enabled, and the other ports are as they were.
C25_RecoverOrder ==
  [][csi'.call[1] = "tegra_csi_error_recover" =>
       LET q  == csi'.call[2]
           lg == csi'.log
           A  == AffectedPorts(csi, q)
       IN /\ \A i \in 1 .. Len(lg) : RecoverStage(lg[i]) \in 1 .. 7
          /\ \A i, j \in 1 .. Len(lg) :
               i < j => RecoverStage(lg[i]) <= RecoverStage(lg[j])
          /\ \A st \in {1, 2, 5, 7} : RecoverTargets(lg, st) = A
          /\ \A st \in {3, 6} : RecoverTargets(lg, st) = {BrickOf(q)}
          /\ RecoverTargets(lg, 4) # {}
          /\ Len(lg) = 4 * Cardinality(A) + 3
          /\ \A p \in A : /\ csi'.sw_sensor_reset[p] = 0
                          /\ csi'.tpg_ctrl[p] = "PG_DISABLE"
          /\ csi'.sw_status_reset[BrickOf(q)] = 0
          /\ \A p \in CsiPortNums \ A :
               /\ csi'.sw_sensor_reset[p] = csi.sw_sensor_reset[p]
               /\ csi'.tpg_ctrl[p] = csi.tpg_ctrl[p]]_vars

\* a recovery named on the second port of a brick whose 4 lanes make it act
\* on both ports, after the port was started
C25_Witness ==
  /\ csi.call[1] = "tegra_csi_error_recover"
  /\ csi.call[2] % 2 = 1
  /\ csi.lanes[csi.call[2]] = 4
  /\ Len(csi.log) = 11
  /\ csi.log[1] = <<"PATTERN_GENERATOR_CTRL", csi.call[2] - 1, "PG_ENABLE">>
  /\ csi.pp_command[csi.call[2]] = "CSI_PP_ENABLE"

\* the positions of the writes of a register in the log of a call
WritesOf(lg, reg) == {k \in 1 .. Len(lg) : lg[k][1] = reg}

\* C26: tegra_csi_start_streaming on a port with 4 lanes writes the CIL PHY
\* control of both ports of the brick and enables both in PHY_CIL_COMMAND,
\* whichever of the two is named; on any other port it sets the enable bit
\* of the named port and leaves the bit of the other port of the brick as it
\* was; in both cases the pixel parser command is written twice, reset
\* before every control word and enable after them as the last write.
C26_StartStreaming ==
  [][csi'.call[1] = "tegra_csi_start_streaming" =>
       LET q   == csi'.call[2]
           b   == BrickOf(q)
           lg  == csi'.log
           cmd == WritesOf(lg, "PIXEL_STREAM_PP_COMMAND")
           rst == CHOOSE k \in cmd : \A l \in cmd : k <= l
       IN /\ IF csi.lanes[q] = 4
             THEN /\ \A p \in {2 * b, 2 * b + 1} :
                       \E k \in WritesOf(lg, "CIL_PHY_CONTROL") :
                         lg[k] = <<"CIL_PHY_CONTROL", p, "0xA">>
                  /\ csi'.phy_cil_command[b] =
                       CSI_A_PHY_CIL_ENABLE \cup CSI_B_PHY_CIL_ENABLE
             ELSE /\ PhyCilEnableOf(q) \subseteq csi'.phy_cil_command[b]
                  /\ csi'.phy_cil_command[b] \ PhyCilEnableOf(q) =
                       csi.phy_cil_command[b] \ PhyCilEnableOf(q)
                  /\ \A k \in WritesOf(lg, "CIL_PHY_CONTROL") : lg[k][2] = q
          /\ \A c \in CsiBricks \ {b} :
               csi'.phy_cil_command[c] = csi.phy_cil_command[c]
          /\ Cardinality(cmd) = 2
          /\ lg[rst] = <<"PIXEL_STREAM_PP_COMMAND", q, "CSI_PP_RST">>
          /\ lg[Len(lg)] = <<"PIXEL_STREAM_PP_COMMAND", q, "CSI_PP_ENABLE">>
          /\ \A w \in PixelParserControlWords :
               /\ WritesOf(lg, w) # {}
               /\ \A k \in WritesOf(lg, w) :
                    rst < k /\ k < Len(lg) /\ lg[k][2] = q
          /\ csi'.pp_command[q] = "CSI_PP_ENABLE"]_vars

\* the second port of a brick started with 2 lanes while the first port,
\* also with 2 lanes, is streaming: both enable bits are set
C26_Witness ==
  /\ csi.call = <<"tegra_csi_start_streaming", 2 * csi.brick + 1>>
  /\ csi.lanes[2 * csi.brick] = 2
  /\ csi.lanes[2 * csi.brick + 1] = 2
  /\ csi.pp_command[2 * csi.brick] = "CSI_PP_ENABLE"
  /\ csi.phy_cil_command[csi.brick] =
       CSI_A_PHY_CIL_ENABLE \cup CSI_B_PHY_CIL_ENABLE
  /\ csi.log[Len(csi.log)] =
       <<"PIXEL_STREAM_PP_COMMAND", 2 * csi.brick + 1, "CSI_PP_ENABLE">>

\* the step of tegra_channel_ec_recover an operation belongs to
EcRecoverStage(op) ==
  IF op = "csi_status" THEN 0
  ELSE IF op = "pad_control_disable" THEN 1
  ELSE IF op = "cg_disable" THEN 2
  ELSE IF op \in {"csi_error_recover", "image_def_clear", "clear_singleshot"}
       THEN 3
  ELSE IF op = "syncpoint_fifo_full" THEN 4
  ELSE IF op = "syncpt_error_clear" THEN 5
  ELSE IF op = "cg_enable" THEN 6
  ELSE IF op = "capture_setup" THEN 7
  ELSE IF op \in {"csi_stop", "csi_start", "syncpt_min_eq_max"} THEN 8
  ELSE 9

\* the place of an operation among the operations issued for one port
EcRecoverRank(op) ==
  IF op \in {"csi_error_recover", "csi_stop"} THEN 1
  ELSE IF op \in {"image_def_clear", "csi_start"} THEN 2
  ELSE IF op \in {"clear_singleshot", "syncpt_min_eq_max"} THEN 3
  ELSE 0

\* the operations issued once for every valid port, and once in all
EcRecoverPortOps ==
  {"csi_status", "csi_error_recover", "image_def_clear", "clear_singleshot",
   "capture_setup", "csi_stop", "csi_start", "syncpt_min_eq_max"}
EcRecoverOnceOps ==
  {"pad_control_disable", "cg_disable", "syncpt_error_clear", "cg_enable"}

\* the log positions of the recovery that follows a sync point timeout: from
\* the timeout to the last operation of tegra_channel_vi_csi_recover
EcRecoverFirst ==
  CHOOSE k \in 1 .. Len(chan.hw) : chan.hw[k][1] = "syncpt_timeout"
EcRecoverLast ==
  CHOOSE k \in (EcRecoverFirst + 1) .. Len(chan.hw) :
    /\ chan.hw[k] = <<"syncpt_min_eq_max", chan.valid_ports - 1>>
    /\ \A l \in (EcRecoverFirst + 1) .. (k - 1) : chan.hw[l] # chan.hw[k]
EcRecoverSegment == (EcRecoverFirst + 1) .. EcRecoverLast

\* C27: the recovery run on a sync point timeout issues its operations in
\* this order: pad power disable, clock gating disable, for every valid port
\* in turn (CSI recover, image definition clear, single shot clear), the
\* FIFO backlog of the ports, the clear of the sync point error status,
\* clock gating enable, the capture set-up, and for every valid port in turn
\* (CSI stop, CSI start, sync point min = max); every step is made once, for
\* the valid ports only, and the min = max of a port follows its CSI start.
C27_EcRecoverOrder ==
  OpInLog("syncpt_timeout") =>
    /\ \E k \in (EcRecoverFirst + 1) .. Len(chan.hw) :
         chan.hw[k] = <<"syncpt_min_eq_max", chan.valid_ports - 1>>
    /\ \A k \in EcRecoverSegment : EcRecoverStage(chan.hw[k][1]) \in 0 .. 8
    /\ \A k, l \in EcRecoverSegment :
         k < l =>
           /\ EcRecoverStage(chan.hw[k][1]) <= EcRecoverStage(chan.hw[l][1])
           /\ (EcRecoverStage(chan.hw[k][1]) = EcRecoverStage(chan.hw[l][1])
                 => \/ chan.hw[k][2] < chan.hw[l][2]
                    \/ /\ chan.hw[k][2] = chan.hw[l][2]
                       /\ EcRecoverRank(chan.hw[k][1])
                            < EcRecoverRank(chan.hw[l][1]))
    /\ \A op \in EcRecoverPortOps :
         {chan.hw[k][2] : k \in {l \in EcRecoverSegment : chan.hw[l][1] = op}}
           = Ports(chan)
    /\ \A op \in EcRecoverOnceOps :
         \E k \in EcRecoverSegment : chan.hw[k] = <<op, 0>>
    /\ \A k \in EcRecoverSegment :
         chan.hw[k][1] = "syncpoint_fifo_full" =>
           /\ chan.hw[k][2] \in Ports(chan)
           /\ \E l \in EcRecoverSegment :
                l > k /\ chan.hw[l][1] = "syncpt_error_clear"
    /\ \A k \in EcRecoverSegment :
         chan.hw[k][1] = "syncpt_min_eq_max" =>
           \E l \in EcRecoverSegment :
             l < k /\ chan.hw[l] = <<"csi_start", chan.hw[k][2]>>

\* two valid ports, the wait of the second one times out and the FIFO of
\* the first one is found full
C27_Witness ==
  /\ AfterCaptureWait
  /\ chan.valid_ports = 2
  /\ InLog("syncpt_timeout", 1)
  /\ InLog("syncpoint_fifo_full", 0)
  /\ ~InLog("syncpoint_fifo_full", 1)
  /\ chan.hw[Len(chan.hw)] = <<"syncpt_min_eq_max", 1>>

\* C28: when tegra_channel_open or tegra_channel_close has returned, with
\* success or with an error, the video_lock of the channel is free (no
\* caller is inside open or close between two steps, so the mutex of every
\* channel is free in every state).
C28_VideoLockReleased ==
  \A ch \in VideoChans : vid.video_lock[ch] = "free"

\* a completion made by free_ring_buffers (the queue is emptied with no
\* sequence number)
IsRingRelease(e) == e.seq >= 0
RingReleases(c) == SelectSeq(c.done, IsRingRelease)

\* C29: released_bufs counts the buffers released from the ring since its
\* last initialisation: it is 0 after tegra_channel_start_streaming and
\* after every capture that ends with a capture state other than GOOD (the
\* flush), and is advanced by every release; a buffer released while the
\* count is below 2 is completed with ERROR whatever state was recorded for
\* it, so only the third release after an initialisation can be a success.
C29_FirstTwoReleasedWithError ==
  [][LET rel   == RingReleases(chan')
         start == ~chan.start_streaming_called /\ chan'.start_streaming_called
         flush == \/ /\ pc \in {"frame", "armed"}
                     /\ pc' = "wait"
                     /\ chan'.capture_state # "GOOD"
                  \/ OpInLog("arm_mw_ack")'
     IN /\ \A i \in 1 .. Len(rel) :
             rel[i].state = "DONE" => chan.released_bufs + (i - 1) >= 2
        /\ chan'.released_bufs =
             (IF start \/ flush THEN 0 ELSE chan.released_bufs + Len(rel))
        /\ (start \/ flush) => /\ chan'.num_buffers = 0
                               /\ ~chan'.bfirst_fstart]_vars

\* the first release after a flush: a buffer whose frame was captured
\* without error is completed with ERROR
C29_Witness ==
  /\ AfterCaptureWait
  /\ chan.capture_state = "GOOD"
  /\ ~chan.clean
  /\ chan.released_bufs = 1
  /\ Len(chan.done) = 1
  /\ chan.done[1].seq >= 1
  /\ chan.done[1].buf \in chan.done[1].fs
  /\ chan.done[1].state = "ERROR"

\* a step in which a capture of the capture kthread ends with a capture
\* state other than GOOD: a failed enable, a timeout or an error status
CaptureEndsNotGood ==
  /\ pc \in {"frame", "armed"}
  /\ pc' = "wait"
  /\ chan'.capture_state # "GOOD"

\* C30: a capture that ends with a capture state other than GOOD completes,
\* in that step, exactly the buffers the ring held, oldest first and each
\* with ERROR (also those whose frame was captured without error), and
\* leaves the ring initialised: num_buffers, save_index and free_index 0,
\* bfirst_fstart false; and whenever the capture kthread is at its wait with
\* a capture state other than GOOD the ring holds no buffer.
C30_NotGoodFlushesRing ==
  /\ [][CaptureEndsNotGood =>
          /\ Len(chan'.done) = chan.num_buffers
          /\ \A i \in 1 .. Len(chan'.done) :
               /\ chan'.done[i].buf = RingBufs[i]
               /\ chan'.done[i].state = "ERROR"
               /\ IsRingRelease(chan'.done[i])
          /\ chan'.num_buffers = 0
          /\ chan'.save_index = 0
          /\ chan'.free_index = 0
          /\ ~chan'.bfirst_fstart]_vars
  /\ []((pc = "wait" /\ chan.capture_state # "GOOD") => chan.num_buffers = 0)

\* an error status flushes three buffers, the first two of them captured
\* without error
C30_Witness ==
  /\ AfterCaptureWait
  /\ chan.capture_state = "ERROR"
  /\ Len(chan.done) = 3
  /\ chan.done[1].buf \in chan.done[1].fs
  /\ chan.done[2].buf \in chan.done[2].fs
  /\ chan.done[3].buf = kbuf
  /\ chan.num_buffers = 0
  /\ ~chan.bfirst_fstart

\* C31: aggregated_kbyteps is the sum of the bandwidth requests of the
\* channels that are streaming: with one channel, its request while it
\* streams and 0 while it does not, also after a start_streaming that failed.
C31_AggregatedBandwidth ==
  chan.aggregated_kbyteps =
    (IF chan.start_streaming_called THEN chan.requested_kbyteps ELSE 0)

\* C32: a test pattern channel and a sensor channel of one VI device are
\* never open at the same time: tpg_opened and sensor_opened are never both
\* true, whatever the interleaving of the opens and closes of the two kinds
\* of channel.
C32_TpgSensorExclusive ==
  \A m \in Mcs : ~(vid.mc[m].tpg_opened /\ vid.mc[m].sensor_opened)

\* C33: the power of VI and CSI is on (power_on_refcnt above 0) exactly
\* while a file of the device is open; the device and channel reference
\* counts are never negative; an open that returns an error leaves both
\* reference counts, and with them the power state, as they were.
C33_PowerWhileOpen ==
  /\ [](/\ vid.power_on_refcnt >= 0
        /\ \A ch \in VideoChans : vid.chan_power_on_refcnt[ch] >= 0
        /\ (vid.power_on_refcnt > 0) <=>
             (\E ch \in VideoChans : vid.files[ch] > 0))
  /\ [][(vid'.call[1] = "tegra_channel_open" /\ vid'.ret # 0)
          => /\ vid'.power_on_refcnt = vid.power_on_refcnt
             /\ vid'.chan_power_on_refcnt = vid.chan_power_on_refcnt]_vars

\* C34: when tegra_channel_stop_streaming returns, is_streaming is DISABLE,
\* with a sensor and with the test pattern generator alike; the flag is
\* ENABLE only inside a streaming session (between the first enabled frame
\* and the stop of the session).
C34_StreamingFlagCleared ==
  /\ [][(stop_pc = "kthread_stop" /\ stop_pc' = "idle")
          => ~chan'.is_streaming]_vars
  /\ [](chan.is_streaming => chan.start_streaming_called)

\* the capture kthread has left tegra_channel_capture_frame with an error
\* (a failed stream enable) and sits at its loop head, or has left the loop
\* on the stop request that followed
EnableFailed == kerr # 0 /\ pc \in {"wait", "exited"}

\* C35: when the stream enable fails on the first frame of a capture the
\* buffer is completed with ERROR and capture_state is ERROR; from then on
\* the capture kthread dequeues no buffer: the queue only grows, until
\* tegra_channel_stop_streaming completes every buffer of it with ERROR.
C35_NoDequeueAfterEnableFailure ==
  /\ [](AfterEnableFailure
         => /\ chan.capture_state = "ERROR"
            /\ Cardinality(DoneOf(kbuf)) = 1
            /\ \A i \in DoneOf(kbuf) : chan.done[i].state = "ERROR")
  /\ [][EnableFailed
          => /\ pc' # "frame"
             /\ IF stop_pc = "kthread_stop" /\ stop_pc' = "idle"
                THEN /\ chan'.capture = << >>
                     /\ chan'.done =
                          [i \in 1 .. Len(chan.capture) |->
                             [buf |-> chan.capture[i], state |-> "ERROR",
                              seq |-> -1, fs |-> {}]]
                ELSE /\ Len(chan'.capture) >= Len(chan.capture)
                     /\ \A i \in 1 .. Len(chan.capture) :
                          chan'.capture[i] = chan.capture[i]]_vars

\* the stop of a session whose first enable failed: the two buffers that
\* were left in the queue are completed with ERROR
C35_Witness ==
  /\ AfterStop
  /\ kerr # 0
  /\ chan.capture_state = "ERROR"
  /\ Len(chan.done) = 2
  /\ chan.done[1].seq = -1 /\ chan.done[1].state = "ERROR"
  /\ chan.done[2].seq = -1 /\ chan.done[2].state = "ERROR"
  /\ chan.ndone = nsub

\* C36: when tegra_channel_stop_streaming runs on a channel that streams
\* with capture state GOOD and whose ring holds buffers, it releases them
\* only after the wait for the memory-write acknowledgement (armed and
\* waited for by tegra_channel_capture_done), whatever the queue holds and
\* wherever the capture kthread was when the stop was requested.
C36_AckWaitBeforeRelease ==
  [][(/\ stop_pc = "kthread_stop" /\ stop_pc' = "idle"
      /\ chan.is_streaming /\ chan.capture_state = "GOOD"
      /\ chan.num_buffers > 0)
       => \E i \in 1 .. Len(chan'.hw) :
            /\ chan'.hw[i][1] = "arm_mw_ack"
            /\ \E j \in (i + 1) .. Len(chan'.hw) :
                 chan'.hw[j][1] = "syncpt_wait"]_vars

\* C37: when tegra_channel_start_streaming returns an error, every buffer
\* of the queue has been handed back with state QUEUED and the queue is
\* empty, no capture kthread runs, and every CSI port the call started has
\* been stopped again.
C37_FailedStartUndone ==
  [][(/\ chan'.hw # << >>
      /\ chan'.hw[1] = <<"ec_init", 0>>
      /\ ~chan'.start_streaming_called)
       => /\ chan'.capture = << >>
          /\ chan'.done = [i \in 1 .. Len(chan.capture) |->
                             [buf |-> chan.capture[i], state |-> "QUEUED",
                              seq |-> -1, fs |-> chan.fs_seen]]
          /\ pc' \in {"none", "exited"}
          /\ \A i \in 1 .. Len(chan'.hw) :
               chan'.hw[i][1] = "csi_start"
                 => \E j \in (i + 1) .. Len(chan'.hw) :
                      chan'.hw[j] = <<"csi_stop", chan'.hw[i][2]>>]_vars

\* the slots whose state update_state_to_buffer writes on channel c
UpdatedSlots(c) ==
  {s \in Slots :
     update_state_to_buffer(
       [c EXCEPT !.buffer_state = [i \in Slots |-> "DEQUEUED"]],
       "DONE").buffer_state[s] = "DONE"}

\* the ring indices are in range and num_buffers is their distance; the
\* num_buffers slots from free_index on hold the oldest uncompleted
\* buffers in submission order
RingIndicesConsistent ==
  /\ chan.save_index \in 0 .. (QUEUED_BUFFERS - 1)
  /\ chan.free_index \in 0 .. (QUEUED_BUFFERS - 1)
  /\ chan.num_buffers =
       (chan.save_index - chan.free_index + QUEUED_BUFFERS) % QUEUED_BUFFERS
  /\ \A i \in 1 .. chan.num_buffers : RingBufs[i] = chan.ndone + i

\* C38: the ring indices are consistent in every state, and every slot
\* whose state is written at the frame start of a capture (not the first
\* one after an initialisation of the ring) holds the buffer captured
\* immediately before the current one.
C38_RingSlots ==
  /\ []RingIndicesConsistent
  /\ [][(pc = "armed" /\ pc' = "wait" /\ chan.bfirst_fstart)
          => \A s \in UpdatedSlots([chan EXCEPT
                                      !.capture_state = chan'.capture_state]) :
               chan.buffers[s] = kbuf - 1]_vars

====
